---------------------------- MODULE Spec2Model ----------------------------
(***************************************************************************)
(* A model of the fancylog rendering engine (github.com/n-ask/fancylog).   *)
(*                                                                         *)
(* Bytes are modelled as one-character strings, a byte slice or Go string  *)
(* as a sequence of them; the escape byte 0x1B is the atom "ESC".  A sink  *)
(* records the Write calls of the most recent API call, each Write being   *)
(* the byte sequence handed to it.                                         *)
(***************************************************************************)
EXTENDS Integers, Sequences, FiniteSets, TLC

VARIABLES
    Prefixes,       \* fancylog.go:77     the Level -> Prefix registry
    maxNameSize,    \* fancylog.go:108
    maxPrefixSize,  \* fancylog.go:109
    httplogInit,    \* part_001:34        TRUE once the sync.Once has run
    logger,         \* fancylog.go:25     the fields of the Logger under study
    pc,             \* "run", "exit" (inside a Fatal variant, before os.Exit), "dead"
    exitArg,        \* the argument of the os.Exit call a Fatal variant is about to make
    exitCode,       \* the status os.Exit was called with, -1 while running
    call,           \* the API call just made and its inputs
    sink,           \* the Write calls the last API call made on each sink
    regs,           \* the names passed to the constructors so far, in order
    thr,            \* the threads of the concurrent specifications
    mu,             \* Logger.mu: "" when free, else the thread holding it
    pool,           \* color.go:17       the buffer pool behind NewColorLogger
    stream,         \* handlers/interceptor.go:158  the wrapped gRPC client stream
    icpt            \* handlers/interceptor.go:30   the interceptor call just made

globals == <<Prefixes, maxNameSize, maxPrefixSize, httplogInit, regs>>
seqvars == <<logger, pc, exitArg, exitCode, call, sink>>
concvars == <<thr, mu, pool, stream, icpt>>
vars == <<Prefixes, maxNameSize, maxPrefixSize, httplogInit, regs,
          logger, pc, exitArg, exitCode, call, sink, thr, mu, pool,
          stream, icpt>>

-----------------------------------------------------------------------------
(* Bounds of the model *)

MaxExitCode == 2
MaxCtors == 3
ClockNow == 3
MaxCalls == 2
MaxBufs == 3

-----------------------------------------------------------------------------
(* Byte strings *)

Spaces(n) == [i \in 1..n |-> " "]

Lower == <<"a","b","c","d","e","f","g","h","i","j","k","l","m",
           "n","o","p","q","r","s","t","u","v","w","x","y","z">>
Upper == <<"A","B","C","D","E","F","G","H","I","J","K","L","M",
           "N","O","P","Q","R","S","T","U","V","W","X","Y","Z">>
Digits == <<"0","1","2","3","4","5","6","7","8","9">>

\* The numeric value of a byte: Go compares strings byte by byte.
Ord(c) ==
    IF \E i \in 1..26 : Lower[i] = c THEN 96 + (CHOOSE i \in 1..26 : Lower[i] = c)
    ELSE IF \E i \in 1..26 : Upper[i] = c THEN 64 + (CHOOSE i \in 1..26 : Upper[i] = c)
    ELSE IF \E i \in 1..10 : Digits[i] = c THEN 47 + (CHOOSE i \in 1..10 : Digits[i] = c)
    ELSE IF c = "." THEN 46
    ELSE IF c = " " THEN 32
    ELSE IF c = "ESC" THEN 27
    ELSE IF c = "\n" THEN 10
    ELSE 0

\* Go's a < b on strings
RECURSIVE StrLess(_, _)
StrLess(a, b) ==
    IF b = <<>> THEN FALSE
    ELSE IF a = <<>> THEN TRUE
    ELSE IF Ord(Head(a)) # Ord(Head(b)) THEN Ord(Head(a)) < Ord(Head(b))
    ELSE StrLess(Tail(a), Tail(b))

\* insertion of x into the ascending sequence s
RECURSIVE InsertSorted(_, _)
InsertSorted(x, s) ==
    IF s = <<>> THEN <<x>>
    ELSE IF StrLess(x, Head(s)) THEN <<x>> \o s
    ELSE <<Head(s)>> \o InsertSorted(x, Tail(s))

RECURSIVE SortAsc(_)
SortAsc(s) == IF s = <<>> THEN <<>> ELSE InsertSorted(Head(s), SortAsc(Tail(s)))

\* a plausible bug: the collected keys are used in iteration order
SortStrings_unsorted(s) == s

\* sort.Strings
SortStrings(s) == SortAsc(s)

\* strconv of a non-negative int, as %v / %+v print it
RECURSIVE Itoa(_)
Itoa(n) == IF n < 10 THEN <<Digits[n + 1]>> ELSE Itoa(n \div 10) \o <<Digits[(n % 10) + 1]>>

\* fmt.Sprintf for formats whose only verb is %s
RECURSIVE Sprintf(_, _)
Sprintf(format, a) ==
    IF format = <<>> THEN <<>>
    ELSE IF Len(format) >= 2 /\ format[1] = "%" /\ format[2] = "s" /\ a # <<>>
         THEN Head(a) \o Sprintf(SubSeq(format, 3, Len(format)), Tail(a))
    ELSE <<Head(format)>> \o Sprintf(Tail(format), a)

\* fmt.Sprintln: the operands separated by spaces, then a newline
RECURSIVE JoinSp(_)
JoinSp(a) ==
    IF a = <<>> THEN <<>>
    ELSE IF Len(a) = 1 THEN Head(a)
    ELSE Head(a) \o <<" ">> \o JoinSp(Tail(a))

Sprintln(a) == JoinSp(a) \o <<"\n">>

\* the orders in which a range over a map with key set S may yield its keys
RangeOrders(S) ==
    {s \in [1..Cardinality(S) -> S] : \A i, j \in 1..Cardinality(S) : i # j => s[i] # s[j]}

-----------------------------------------------------------------------------
(* color.go *)

colorOff         == <<"ESC","[","0","m">>
ColorRed         == <<"ESC","[","0",";","3","1","m">>
ColorGreen       == <<"ESC","[","0",";","3","2","m">>
ColorOrange      == <<"ESC","[","0",";","3","3","m">>
ColorBlue        == <<"ESC","[","0",";","3","4","m">>
ColorPurple      == <<"ESC","[","0",";","3","5","m">>
ColorCyan        == <<"ESC","[","0",";","3","6","m">>
ColorFatalRed    == <<"ESC","[","1","m","ESC","[","3","1","m","ESC","[","7","m">>
ColorBrightWhite == <<"ESC","[","1","m","ESC","[","3","8",";","5",";","2","5","5","m">>
ColorNicePurple  == <<"ESC","[","1","m","ESC","[","3","8",";","5",";","9","9","m">>

mixer(data, color) == color \o data \o colorOff

\* a *Color, *TimestampFunc or *string: nil, or a pointer to val
NilPtr == [set |-> FALSE, val |-> <<>>]
Ptr(v) == [set |-> TRUE, val |-> v]


-----------------------------------------------------------------------------
(* Levels and the Prefix registry *)

Fatal == <<"F","A","T","A","L">>
Error == <<"E","R","R","O","R">>
Warn  == <<"W","A","R","N">>
Info  == <<"I","N","F","O">>
Debug == <<"D","E","B","U","G">>
Trace == <<"T","R","A","C","E">>

StdLevels == {Fatal, Error, Warn, Info, Debug, Trace}

\* a plausible bug: the label is written without its brackets
toPrefix_bare(l) == l

toPrefix(l) == <<"[">> \o l \o <<"]">>

MkPrefix(text, color, file) == [Text |-> text, Color |-> color, File |-> file]

\* the initial value of the package variable Prefixes
StdPrefixes ==
    [lv \in StdLevels |->
        CASE lv = Fatal -> MkPrefix(Fatal, ColorFatalRed, TRUE)
          [] lv = Error -> MkPrefix(Error, ColorRed, FALSE)
          [] lv = Warn  -> MkPrefix(Warn, ColorOrange, FALSE)
          [] lv = Info  -> MkPrefix(Info, ColorGreen, FALSE)
          [] lv = Trace -> MkPrefix(Trace, ColorCyan, TRUE)
          [] lv = Debug -> MkPrefix(Debug, ColorPurple, FALSE)]

GetLevel     == <<"G","E","T">>
DeleteLevel  == <<"D","E","L","E","T","E">>
ConnectLevel == <<"C","O","N","N","E","C","T">>
HeadLevel    == <<"H","E","A","D">>
OptionsLevel == <<"O","P","T","I","O","N","S">>
PostLevel    == <<"P","O","S","T">>
PutLevel     == <<"P","U","T">>
TraceLevel   == <<"T","R","A","C","E">>

HttpLevels == {GetLevel, DeleteLevel, ConnectLevel, HeadLevel,
               OptionsLevel, PostLevel, PutLevel, TraceLevel}

HttpPrefixes == [lv \in HttpLevels |-> MkPrefix(lv, ColorCyan, FALSE)]

httpFormatter == <<"{","%","s","}">>

\* maps.Copy(dst, src)
MapsCopy(dst, src) ==
    [k \in (DOMAIN dst) \cup (DOMAIN src) |-> IF k \in DOMAIN src THEN src[k] ELSE dst[k]]

MaxOf(S) == IF S = {} THEN 0 ELSE CHOOSE x \in S : \A y \in S : y <= x

\* scanPrefixes: the value of maxPrefixSize after the loop over the registry P
scanPrefixes(P, mps) == MaxOf({mps} \cup {Len(lv) : lv \in DOMAIN P})

\* a plausible bug: the name width is overwritten without the comparison
RegisterName_overwrite(mns, name) == Len(name)

\* the check-then-set on maxNameSize of the named constructors
RegisterName(mns, name) == IF mns < Len(name) THEN Len(name) ELSE mns

-----------------------------------------------------------------------------
(* The Logger *)

NoLogger ==
    [made |-> FALSE, name |-> <<>>, color |-> FALSE, out |-> "out", err |-> "out",
     debug |-> FALSE, trace |-> FALSE, timestamp |-> FALSE,
     timestampColor |-> NilPtr, timestampFn |-> NilPtr,
     quiet |-> FALSE, nameFormatter |-> NilPtr, http |-> FALSE]

\* the composite literal &Logger{...} of the constructors; the fields it does not
\* name hold their zero values.  http: the Logger is the FancyLogger of an HttpLog
MkLogger(name, tty, err, fmt, http) ==
    [made |-> TRUE, name |-> name, color |-> tty, out |-> "out", err |-> err,
     debug |-> FALSE, trace |-> TRUE, timestamp |-> TRUE,
     timestampColor |-> NilPtr, timestampFn |-> NilPtr,
     quiet |-> FALSE, nameFormatter |-> fmt, http |-> http]

HasColor(l) == l.color

\* a plausible bug: the debug gate is always open
IsDebug_always(l) == TRUE

IsDebug(l) == l.debug

IsTrace(l) == l.debug

\* a plausible bug: the quiet flag is ignored
IsQuiet_never(l) == FALSE

IsQuiet(l) == l.quiet

\* defaultTimeFn: the clock reading and time.RFC3339
defaultTimeFn == [time |-> ClockNow, layout |-> "RFC3339"]

getTimeFunc(l) == IF l.timestampFn.set THEN l.timestampFn.val ELSE defaultTimeFn

\* buffer.AppendTime: the time t (an hour of 2024-01-02, UTC) in the layout
AppendTime(t, layout) ==
    IF layout = "RFC3339"
    THEN <<"2","0","2","4","-","0","1","-","0","2","T">>
         \o (IF t < 10 THEN <<"0">> ELSE <<>>) \o Itoa(t)
         \o <<":","0","0",":","0","0","Z">>
    ELSE Itoa(t) \o <<":","0","0">>

\* getStackTrace: the frames of the caller outside the fancylog package
StackTrace ==
    <<"\t","m","a","i","n",".","m","a","i","n","(",")","\n",
      "\t","\t"," ","m","a","i","n",".","g","o",":","9","\n">>

-----------------------------------------------------------------------------
(* Rendering: what each helper appends to the buffer.  col is the value read *)
(* from l.color by that helper.                                              *)

\* a plausible bug: the colour override of the call is ignored
writePrefixBytes_own(col, p, mps, colorOverride) ==
    (IF col THEN mixer(toPrefix(p.Text), p.Color) ELSE toPrefix(p.Text))
    \o Spaces(IF mps - Len(p.Text) > 0 THEN mps - Len(p.Text) ELSE 0)
    \o <<" ">>

writePrefixBytes(col, p, mps, colorOverride) ==
    (IF col
     THEN (IF colorOverride.set
           THEN mixer(toPrefix(p.Text), colorOverride.val)
           ELSE mixer(toPrefix(p.Text), p.Color))
     ELSE toPrefix(p.Text))
    \o Spaces(IF mps - Len(p.Text) > 0 THEN mps - Len(p.Text) ELSE 0)
    \o <<" ">>

writeTimeBytes(colOn, colOff, tsColor, tf) ==
    (IF colOn THEN (IF tsColor.set THEN tsColor.val ELSE ColorBlue) ELSE <<>>)
    \o AppendTime(tf.time, tf.layout)
    \o <<" ">>
    \o (IF colOff THEN colorOff ELSE <<>>)

writeNameBytes(colOn, colOff, name, fmt) ==
    (IF colOn THEN ColorNicePurple ELSE <<>>)
    \o (IF fmt.set
        THEN Sprintf(fmt.val, <<name>>) \o <<" ">>
        ELSE <<"<">> \o name \o <<">", " ">>)
    \o (IF colOff THEN colorOff ELSE <<>>)

writeStackBytes(colOn, colOff, stack) ==
    (IF colOn THEN ColorOrange ELSE <<>>)
    \o stack
    \o (IF colOff THEN colorOff ELSE <<>>)

\* a plausible bug: a logger without a name gets the gutter and no padding
namePadBytes_gutter(name, mns) ==
    IF Len(name) = 0 THEN Spaces(3)
    ELSE Spaces(IF mns - Len(name) > 0 THEN mns - Len(name) ELSE 0)

\* the padding loop after the name (fancylog.go:403-412 and 467-476)
namePadBytes(name, mns) ==
    IF Len(name) # mns
    THEN Spaces(IF mns - Len(name) > 0 THEN mns - Len(name) ELSE 0)
         \o (IF Len(name) = 0 THEN Spaces(3) ELSE <<>>)
    ELSE <<>>

\* the preamble shared by output and outputMap: name, padding, label, timestamp
preambleBytes(l, mns, mps, prefix, prefixColorOverride) ==
    (IF Len(l.name) > 0 THEN writeNameBytes(l.color, l.color, l.name, l.nameFormatter) ELSE <<>>)
    \o namePadBytes(l.name, mns)
    \o writePrefixBytes(l.color, prefix, mps, prefixColorOverride)
    \o (IF l.timestamp
        THEN writeTimeBytes(l.color, l.color, l.timestampColor, getTimeFunc(l))
        ELSE <<>>)

\* a plausible bug: the newline is appended whatever the message ends in
dataBytes_always(data) == data \o <<"\n">>

\* the message and its newline (fancylog.go:422-425)
dataBytes(data) ==
    data \o (IF Len(data) = 0 \/ data[Len(data)] # "\n" THEN <<"\n">> ELSE <<>>)

\* the buffer of output at the Write (fancylog.go:389-429), for a logger read
\* once and unchanged during the call
outputBytes(l, mns, mps, prefix, data, prefixColorOverride) ==
    preambleBytes(l, mns, mps, prefix, prefixColorOverride)
    \o dataBytes(data)
    \o (IF prefix.File THEN writeStackBytes(l.color, l.color, StackTrace) ELSE <<>>)

-----------------------------------------------------------------------------
(* Field maps.  A value is an int, a string, a map[string]any whose values *)
(* are ints and strings, or a map[string][]string.                         *)

VInt(n) == [n |-> n, s |-> <<>>, k |-> "int", m |-> <<>>]
VStr(s) == [n |-> 0, s |-> s, k |-> "str", m |-> <<>>]
VMap(m) == [n |-> 0, s |-> <<>>, k |-> "map", m |-> m]
VHdr(m) == [n |-> 0, s |-> <<>>, k |-> "hdr", m |-> m]

\* fmt.Sprintf("%+v", v) of an int, a string or a []string
RECURSIVE FormatList(_)
FormatList(xs) ==
    IF xs = <<>> THEN <<>>
    ELSE IF Len(xs) = 1 THEN Head(xs)
    ELSE Head(xs) \o <<" ">> \o FormatList(Tail(xs))

FormatV(v) ==
    CASE v.k = "int" -> Itoa(v.n)
      [] v.k = "str" -> v.s
      [] OTHER -> <<"[">> \o FormatList(v.s) \o <<"]">>

\* the iteration orders of one outputMap call: of the map itself and of each
\* nested map
IterOrders(data) ==
    {it \in [top : RangeOrders(DOMAIN data),
             inner : [DOMAIN data -> UNION {RangeOrders(DOMAIN data[k].m) : k \in DOMAIN data}]] :
        \A k \in DOMAIN data : it.inner[k] \in RangeOrders(DOMAIN data[k].m)}

\* the body of the loop over innerSortedKeys (fancylog.go:509-524, 537-552)
RECURSIVE innerBytes(_, _, _)
innerBytes(col, v, keys) ==
    IF keys = <<>> THEN <<>>
    ELSE <<" ">>
         \o (IF col THEN ColorOrange ELSE <<>>)
         \o Head(keys)
         \o (IF col THEN ColorBrightWhite ELSE <<>>)
         \o <<":">>
         \o (IF col THEN ColorCyan ELSE <<>>)
         \o FormatV(IF v.k = "hdr" THEN [s |-> v.m[Head(keys)], k |-> "list"]
                    ELSE v.m[Head(keys)])
         \o <<" ">>
         \o innerBytes(col, v, Tail(keys))

\* the body of the loop over sortedKeys (fancylog.go:491-570)
RECURSIVE fieldsBytes(_, _, _, _, _)
fieldsBytes(col, data, keys, inner, mapKeyColorOverride) ==
    IF keys = <<>> THEN <<>>
    ELSE LET key == Head(keys)
             v == data[key]
         IN  (IF col THEN ColorPurple ELSE <<>>)
             \o (IF mapKeyColorOverride.set /\ key \in DOMAIN mapKeyColorOverride.val
                 THEN mapKeyColorOverride.val[key] ELSE <<>>)
             \o key
             \o (IF v.k \in {"map", "hdr"}
                 THEN <<"[">>
                      \o innerBytes(col, v, SortStrings(inner[key]))
                      \o (IF col THEN ColorPurple ELSE <<>>)
                      \o <<"]", " ">>
                 ELSE (IF col THEN ColorOrange ELSE <<>>)
                      \o <<"=">>
                      \o (IF col THEN ColorCyan ELSE <<>>)
                      \o FormatV(v)
                      \o <<" ">>)
             \o fieldsBytes(col, data, Tail(keys), inner, mapKeyColorOverride)

\* the buffer of outputMap at the Write (fancylog.go:452-579) when the ranges
\* over the maps yield their keys in the orders it
outputMapBytes(l, mns, mps, prefix, data, it, prefixColorOverride, mapKeyColorOverride) ==
    preambleBytes(l, mns, mps, prefix, prefixColorOverride)
    \o fieldsBytes(l.color, data, SortStrings(it.top), it.inner, mapKeyColorOverride)
    \o (IF l.color THEN colorOff ELSE <<>>)
    \o <<"\n">>
    \o (IF prefix.File
        THEN writeStackBytes(l.color, l.color, StackTrace) \o <<"\n">>
        ELSE <<>>)

-----------------------------------------------------------------------------
(* Sinks *)

EmptySink == [out |-> <<>>, err |-> <<>>]

\* a plausible bug: the severity is ignored when the writer is chosen
SinkOf_out(l, isErr) == l.out

\* fancylog.go:431-435 and 581-585: the writer the buffer goes to
SinkOf(l, isErr) == IF isErr THEN l.err ELSE l.out

WriteTo(w, bytes) == [EmptySink EXCEPT ![w] = <<bytes>>]

\* the Write calls of one call of output
output(l, mns, mps, prefix, data, isErr, prefixColorOverride) ==
    IF IsQuiet(l) THEN EmptySink
    ELSE WriteTo(SinkOf(l, isErr),
                 outputBytes(l, mns, mps, prefix, data, prefixColorOverride))

\* the Write calls of one call of outputMap
outputMap(l, mns, mps, prefix, data, it, isErr, prefixColorOverride, mapKeyColorOverride) ==
    IF IsQuiet(l) THEN EmptySink
    ELSE WriteTo(SinkOf(l, isErr),
                 outputMapBytes(l, mns, mps, prefix, data, it,
                                prefixColorOverride, mapKeyColorOverride))

-----------------------------------------------------------------------------
(* Inputs of the calls *)

Hi == <<"h","i">>

Started == <<"s","t","a","r","t","e","d">>

Names == {<<"a","b">>, <<"s","v","c">>, <<"g","a","t","e","w","a","y">>}

\* the operands of Fatal, Error, ... (printed by Sprintln)
ArgLists == {<<>>, <<Hi>>, <<Started>>}

\* the format and operands of Fatalf, Errorf, ... (printed by Sprintf)
FormatCalls ==
    {[format |-> <<>>, a |-> <<>>],
     [format |-> <<"h","i","\n">>, a |-> <<>>],
     [format |-> <<"%","s">>, a |-> <<Hi>>]}

FlatMap ==
    (<<"b">> :> VStr(<<"x">>)) @@ (<<"a","b">> :> VInt(7)) @@ (<<"B">> :> VInt(10))

NestedMap ==
    (<<"m">> :> VMap((<<"k","2">> :> VInt(2)) @@ (<<"k","1">> :> VStr(<<"v">>))))
    @@ (<<"h">> :> VHdr((<<"b">> :> <<<<"x">>>>) @@ (<<"A">> :> <<<<"y">>, <<"z">>>>)))

FieldMaps == {<<>>, FlatMap, NestedMap}

\* the field maps handed to the per-method calls of HttpLog
HttpFieldMaps == {<<>>, <<"u","r","i">> :> VStr(<<"x">>)}

\* caller-defined prefixes handed to Log, Logf and LogMap
CustomPrefixes ==
    {MkPrefix(<<"A","U","D","I","T">>, ColorBlue, FALSE),
     MkPrefix(<<"C","R","I","T","I","C","A","L">>, ColorRed, TRUE)}

ExitCodes == 0..MaxExitCode

NoPrefix == MkPrefix(<<>>, <<>>, FALSE)

\* op: the function called; prefix, data: the arguments of output; arg: the field
\* map passed in and fields: that map when the call is over; pco, mkco: the
\* colour overrides passed to outputMap; code: the exit status passed in, -1 if
\* none; ret: the value returned, "l" for the receiver
NoCall == [op |-> "none", prefix |-> NoPrefix, data |-> <<>>, arg |-> <<>>,
           fields |-> <<>>, pco |-> NilPtr, mkco |-> NilPtr, code |-> -1, ret |-> "none"]

\* the API calls whose effect on the sinks is recorded in call and sink
FatalOps == {"Fatal", "Fatalf", "FatalMap", "FatalWithCode", "FatalWithCodef", "FatalMapWithCode"}
ErrorOps == {"Error", "Errorf", "ErrorMap"}
WarnOps  == {"Warn", "Warnf", "WarnMap"}
InfoOps  == {"Info", "Infof", "InfoMap"}
DebugOps == {"Debug", "Debugf", "DebugMap"}
TraceOps == {"Trace", "Tracef", "TraceMap"}
PrefixOps == {"Log", "Logf", "LogMap"}
HttpOps == {"GetMethod", "DeleteMethod", "ConnectMethod", "HeadMethod",
            "OptionsMethod", "PostMethod", "PutMethod", "TraceMethod"}
LogOps == FatalOps \cup ErrorOps \cup WarnOps \cup InfoOps \cup DebugOps
          \cup TraceOps \cup PrefixOps \cup HttpOps
MapOps == {"FatalMap", "FatalMapWithCode", "ErrorMap", "WarnMap", "InfoMap",
           "DebugMap", "TraceMap", "LogMap"} \cup HttpOps

-----------------------------------------------------------------------------
(* The sequential API.  An API call is made by the one caller of the       *)
(* sequential specifications once it has read the sinks after its last     *)
(* logging call (Observe); no action reads call or sink, so this changes   *)
(* no reachable configuration.                                             *)

Ready == pc = "run" /\ call.op \notin LogOps

\* _pool = buffer.NewPool(): idle holds the buffers put back and not taken
\* again, made counts the buffers the pool has created
EmptyPool == [idle |-> {}, made |-> 0]

\* handlers/interceptor.go:158-168, before StreamClientInterceptor is called.
\* cs: "none", then "nil" (no wrapper was created) or "wrapped"; loop: where
\* the goroutine of wrapClientStream is; state: its local variable; val: the
\* value it offers on finished; eventsDone: the channel is closed; events and
\* finished: the values that went through the two unbuffered channels so far
NoStream == [cs |-> "none", ServerStreams |-> FALSE, loop |-> "none", state |-> 0,
             val |-> "nil", eventsDone |-> FALSE, events |-> <<>>, finished |-> <<>>,
             receivedMessageID |-> 0, sentMessageID |-> 0]

\* kind: the interceptor called; method, ignoreMethods, logLevel: its inputs;
\* resp, err: what the handler, invoker or streamer returned; fin: the value
\* the logging goroutine of StreamClientInterceptor received on finished;
\* logged: the calls made on the logger; ret: what the interceptor returned
NoIntercept == [kind |-> "none", method |-> <<>>, ignoreMethods |-> <<>>,
                logLevel |-> <<>>, resp |-> "nil", err |-> "nil", fin |-> "nil",
                logged |-> <<>>,
                ret |-> [err |-> "nil", resp |-> "nil", done |-> FALSE]]

Init ==
    /\ Prefixes = StdPrefixes
    /\ maxNameSize = 0
    /\ maxPrefixSize = 0
    /\ httplogInit = FALSE
    /\ regs = <<>>
    /\ logger = NoLogger
    /\ pc = "run"
    /\ exitArg = -1
    /\ exitCode = -1
    /\ call = NoCall
    /\ sink = EmptySink
    /\ thr = <<>>
    /\ mu = ""
    /\ pool = EmptyPool
    /\ stream = NoStream
    /\ icpt = NoIntercept

\* the caller reads what the call wrote
Observe ==
    /\ pc = "run"
    /\ call.op \in LogOps
    /\ call' = NoCall
    /\ sink' = EmptySink
    /\ UNCHANGED <<logger, pc, exitArg, exitCode, globals, concvars>>

(* Constructors.  tty: terminal.IsTerminal(int(out.Fd())); keep: the logger *)
(* returned is the Logger under study.                                      *)

\* a constructor of fancylog.go: scanPrefixes, then the check-then-set of a name
Construct(op, named, name, err, tty, keep) ==
    /\ Ready
    /\ keep => ~logger.made
    /\ named => Len(regs) < MaxCtors
    /\ maxPrefixSize' = scanPrefixes(Prefixes, maxPrefixSize)
    /\ maxNameSize' = IF named THEN RegisterName(maxNameSize, name) ELSE maxNameSize
    /\ regs' = IF named THEN Append(regs, name) ELSE regs
    /\ logger' = IF keep THEN MkLogger(name, tty, err, NilPtr, FALSE) ELSE logger
    /\ call' = [NoCall EXCEPT !.op = op]
    /\ sink' = EmptySink
    /\ UNCHANGED <<Prefixes, httplogInit, pc, exitArg, exitCode, concvars>>

\* httplogInit.Do(httplogInitalizer): maps.Copy(Prefixes, HttpPrefixes), scanPrefixes
httplogInitalizer ==
    /\ Prefixes' = MapsCopy(Prefixes, HttpPrefixes)
    /\ maxPrefixSize' = scanPrefixes(MapsCopy(Prefixes, HttpPrefixes), maxPrefixSize)

\* a constructor of the HTTP logger
ConstructHttp(op, named, name, err, tty, keep) ==
    /\ Ready
    /\ keep => ~logger.made
    /\ named => Len(regs) < MaxCtors
    /\ IF httplogInit
       THEN UNCHANGED <<Prefixes, maxPrefixSize>>
       ELSE httplogInitalizer
    /\ httplogInit' = TRUE
    /\ maxNameSize' = IF named THEN RegisterName(maxNameSize, name) ELSE maxNameSize
    /\ regs' = IF named THEN Append(regs, name) ELSE regs
    /\ logger' = IF keep THEN MkLogger(name, tty, err, Ptr(httpFormatter), TRUE) ELSE logger
    /\ call' = [NoCall EXCEPT !.op = op]
    /\ sink' = EmptySink
    /\ UNCHANGED <<pc, exitArg, exitCode, concvars>>

New(K) == \E tty \in BOOLEAN, keep \in K :
    Construct("New", FALSE, <<>>, "out", tty, keep)

NewWithError(K) == \E tty \in BOOLEAN, keep \in K :
    Construct("NewWithError", FALSE, <<>>, "err", tty, keep)

NewWithName(K) == \E name \in Names, tty \in BOOLEAN, keep \in K :
    Construct("NewWithName", TRUE, name, "out", tty, keep)

NewWithNameAndError(K) == \E name \in Names, tty \in BOOLEAN, keep \in K :
    Construct("NewWithNameAndError", TRUE, name, "err", tty, keep)

NewHttpLogger(K) == \E tty \in BOOLEAN, keep \in K :
    ConstructHttp("NewHttpLogger", FALSE, <<>>, "out", tty, keep)

NewHttpLoggerWithError(K) == \E tty \in BOOLEAN, keep \in K :
    ConstructHttp("NewHttpLoggerWithError", FALSE, <<>>, "err", tty, keep)

NewHttpLoggerWithName(K) == \E name \in Names, tty \in BOOLEAN, keep \in K :
    ConstructHttp("NewHttpLoggerWithName", TRUE, name, "out", tty, keep)

NewHttpLoggerWithNameAndError(K) == \E name \in Names, tty \in BOOLEAN, keep \in K :
    ConstructHttp("NewHttpLoggerWithNameAndError", TRUE, name, "err", tty, keep)

(* Setters: Lock, the assignment, Unlock, as one step of the one caller *)

\* the argument of SetDefaultTimeFn: a clock that reads nine, in a short layout
KitchenClock == [time |-> 9, layout |-> "Kitchen"]

ToggleOps == {"WithColor", "WithoutColor", "WithDebug", "WithoutDebug", "WithTrace",
              "WithoutTrace", "WithTimestamp", "WithoutTimestamp", "Quiet", "NoQuiet"}

SetterOps == ToggleOps \cup {"SetTimestampColor", "SetDefaultTimeFn"}

\* the assignment each configuration call makes to the Logger l
Assign(op, l) ==
    CASE op = "WithColor"         -> [l EXCEPT !.color = TRUE]
      [] op = "WithoutColor"      -> [l EXCEPT !.color = FALSE]
      [] op = "WithDebug"         -> [l EXCEPT !.debug = TRUE]
      [] op = "WithoutDebug"      -> [l EXCEPT !.debug = FALSE]
      [] op = "WithTrace"         -> [l EXCEPT !.trace = TRUE]
      [] op = "WithoutTrace"      -> [l EXCEPT !.trace = FALSE]
      [] op = "WithTimestamp"     -> [l EXCEPT !.timestamp = TRUE]
      [] op = "WithoutTimestamp"  -> [l EXCEPT !.timestamp = FALSE]
      [] op = "Quiet"             -> [l EXCEPT !.quiet = TRUE]
      [] op = "NoQuiet"           -> [l EXCEPT !.quiet = FALSE]
      [] op = "SetTimestampColor" -> [l EXCEPT !.timestampColor = Ptr(ColorRed)]
      [] op = "SetDefaultTimeFn"  -> [l EXCEPT !.timestampFn = Ptr(KitchenClock)]

\* whether the call takes l.mu around its assignment
Locks(op) == op \in ToggleOps

Setter(op, l2) ==
    /\ Ready
    /\ logger.made
    /\ logger' = l2
    /\ call' = [NoCall EXCEPT !.op = op, !.ret = "l"]
    /\ sink' = EmptySink
    /\ UNCHANGED <<pc, exitArg, exitCode, globals, concvars>>

WithColor        == Setter("WithColor", Assign("WithColor", logger))
WithoutColor     == Setter("WithoutColor", Assign("WithoutColor", logger))
WithDebug        == Setter("WithDebug", Assign("WithDebug", logger))
WithoutDebug     == Setter("WithoutDebug", Assign("WithoutDebug", logger))
WithTrace        == Setter("WithTrace", Assign("WithTrace", logger))
WithoutTrace     == Setter("WithoutTrace", Assign("WithoutTrace", logger))
WithTimestamp    == Setter("WithTimestamp", Assign("WithTimestamp", logger))
WithoutTimestamp == Setter("WithoutTimestamp", Assign("WithoutTimestamp", logger))
Quiet            == Setter("Quiet", Assign("Quiet", logger))
NoQuiet          == Setter("NoQuiet", Assign("NoQuiet", logger))

(* Logging calls.  Out and OutMap are l.output and l.outputMap on the      *)
(* Logger under study with the registry as it is at the call.             *)

Out(prefix, data, isErr) ==
    output(logger, maxNameSize, maxPrefixSize, prefix, data, isErr, NilPtr)

OutMap(prefix, a, it, isErr) ==
    outputMap(logger, maxNameSize, maxPrefixSize, prefix, a, it, isErr, NilPtr, NilPtr)

\* a call that returns to its caller, having made the Write calls w
Returns(op, prefix, data, a, w) ==
    /\ Ready
    /\ logger.made
    /\ call' = [NoCall EXCEPT !.op = op, !.prefix = prefix, !.data = data,
                              !.arg = a, !.fields = a]
    /\ sink' = w
    /\ UNCHANGED <<logger, pc, exitArg, exitCode, globals, concvars>>

\* a plausible bug: the Fatal variant returns to its caller
Exits_returns(op, prefix, data, a, w, code, status) ==
    /\ Ready
    /\ logger.made
    /\ call' = [NoCall EXCEPT !.op = op, !.prefix = prefix, !.data = data,
                              !.arg = a, !.fields = a, !.code = code]
    /\ sink' = w
    /\ UNCHANGED <<logger, pc, exitCode, exitArg, globals, concvars>>

\* a Fatal variant up to the end of its render step: os.Exit(status) is its next
\* statement
Exits(op, prefix, data, a, w, code, status) ==
    /\ Ready
    /\ logger.made
    /\ call' = [NoCall EXCEPT !.op = op, !.prefix = prefix, !.data = data,
                              !.arg = a, !.fields = a, !.code = code]
    /\ sink' = w
    /\ pc' = "exit"
    /\ exitArg' = status
    /\ UNCHANGED <<logger, exitCode, globals, concvars>>

\* os.Exit(status): the process ends; nothing runs after it
OsExit ==
    /\ pc = "exit"
    /\ pc' = "dead"
    /\ exitCode' = exitArg
    /\ UNCHANGED <<logger, call, sink, exitArg, globals, concvars>>

Logger_Fatal == \E v \in ArgLists :
    Exits("Fatal", Prefixes[Fatal], Sprintln(v), <<>>,
          Out(Prefixes[Fatal], Sprintln(v), TRUE), -1, 1)

Logger_FatalWithCode == \E exit \in ExitCodes, v \in ArgLists :
    Exits("FatalWithCode", Prefixes[Fatal], Sprintln(v), <<>>,
          Out(Prefixes[Fatal], Sprintln(v), TRUE), exit, exit)

Logger_Fatalf == \E f \in FormatCalls :
    Exits("Fatalf", Prefixes[Fatal], Sprintf(f.format, f.a), <<>>,
          Out(Prefixes[Fatal], Sprintf(f.format, f.a), TRUE), -1, 1)

Logger_FatalWithCodef == \E exit \in ExitCodes, f \in FormatCalls :
    Exits("FatalWithCodef", Prefixes[Fatal], Sprintf(f.format, f.a), <<>>,
          Out(Prefixes[Fatal], Sprintf(f.format, f.a), TRUE), exit, exit)

Logger_FatalMap == \E v \in FieldMaps : \E it \in IterOrders(v) :
    Exits("FatalMap", Prefixes[Fatal], <<>>, v,
          OutMap(Prefixes[Fatal], v, it, TRUE), -1, 1)

Logger_FatalMapWithCode == \E exit \in ExitCodes, v \in FieldMaps : \E it \in IterOrders(v) :
    Exits("FatalMapWithCode", Prefixes[Fatal], <<>>, v,
          OutMap(Prefixes[Fatal], v, it, TRUE), exit, exit)

Logger_Error == \E v \in ArgLists :
    Returns("Error", Prefixes[Error], Sprintln(v), <<>>,
            Out(Prefixes[Error], Sprintln(v), TRUE))

Logger_Errorf == \E f \in FormatCalls :
    Returns("Errorf", Prefixes[Error], Sprintf(f.format, f.a), <<>>,
            Out(Prefixes[Error], Sprintf(f.format, f.a), TRUE))

Logger_ErrorMap == \E v \in FieldMaps : \E it \in IterOrders(v) :
    Returns("ErrorMap", Prefixes[Error], <<>>, v,
            OutMap(Prefixes[Error], v, it, TRUE))

Logger_Warn == \E v \in ArgLists :
    Returns("Warn", Prefixes[Warn], Sprintln(v), <<>>,
            Out(Prefixes[Warn], Sprintln(v), FALSE))

Logger_Warnf == \E f \in FormatCalls :
    Returns("Warnf", Prefixes[Warn], Sprintf(f.format, f.a), <<>>,
            Out(Prefixes[Warn], Sprintf(f.format, f.a), FALSE))

Logger_WarnMap == \E v \in FieldMaps : \E it \in IterOrders(v) :
    Returns("WarnMap", Prefixes[Warn], <<>>, v,
            OutMap(Prefixes[Warn], v, it, FALSE))

Logger_Info == \E v \in ArgLists :
    Returns("Info", Prefixes[Info], Sprintln(v), <<>>,
            Out(Prefixes[Info], Sprintln(v), FALSE))

Logger_Infof == \E f \in FormatCalls :
    Returns("Infof", Prefixes[Info], Sprintf(f.format, f.a), <<>>,
            Out(Prefixes[Info], Sprintf(f.format, f.a), FALSE))

Logger_InfoMap == \E v \in FieldMaps : \E it \in IterOrders(v) :
    Returns("InfoMap", Prefixes[Info], <<>>, v,
            OutMap(Prefixes[Info], v, it, FALSE))

Logger_Debug == \E v \in ArgLists :
    Returns("Debug", Prefixes[Debug], Sprintln(v), <<>>,
            IF IsDebug(logger) THEN Out(Prefixes[Debug], Sprintln(v), FALSE)
            ELSE EmptySink)

Logger_Debugf == \E f \in FormatCalls :
    Returns("Debugf", Prefixes[Debug], Sprintf(f.format, f.a), <<>>,
            IF IsDebug(logger) THEN Out(Prefixes[Debug], Sprintf(f.format, f.a), FALSE)
            ELSE EmptySink)

Logger_DebugMap == \E v \in FieldMaps : \E it \in IterOrders(v) :
    Returns("DebugMap", Prefixes[Debug], <<>>, v,
            IF IsDebug(logger) THEN OutMap(Prefixes[Debug], v, it, FALSE)
            ELSE EmptySink)

Logger_Trace == \E v \in ArgLists :
    Returns("Trace", Prefixes[Trace], Sprintln(v), <<>>,
            IF IsTrace(logger) THEN Out(Prefixes[Trace], Sprintln(v), FALSE)
            ELSE EmptySink)

Logger_Tracef == \E f \in FormatCalls :
    Returns("Tracef", Prefixes[Trace], Sprintf(f.format, f.a), <<>>,
            IF IsTrace(logger) THEN Out(Prefixes[Trace], Sprintf(f.format, f.a), FALSE)
            ELSE EmptySink)

Logger_TraceMap == \E v \in FieldMaps : \E it \in IterOrders(v) :
    Returns("TraceMap", Prefixes[Trace], <<>>, v,
            IF IsTrace(logger) THEN OutMap(Prefixes[Trace], v, it, FALSE)
            ELSE EmptySink)

Logger_Log == \E prefix \in CustomPrefixes, a \in ArgLists :
    Returns("Log", prefix, Sprintln(a), <<>>, Out(prefix, Sprintln(a), FALSE))

Logger_Logf == \E prefix \in CustomPrefixes, f \in FormatCalls :
    Returns("Logf", prefix, Sprintf(f.format, f.a), <<>>,
            Out(prefix, Sprintf(f.format, f.a), FALSE))

Logger_LogMap == \E prefix \in CustomPrefixes, a \in FieldMaps : \E it \in IterOrders(a) :
    Returns("LogMap", prefix, <<>>, a, OutMap(prefix, a, it, FALSE))

(* part_001: the per-method calls of HttpLog *)

StatusKey == <<"s","t","a","t","u","s">>

Statuses == {99, 200, 404}

getStatusColor(status) ==
    IF 100 <= status /\ status <= 199 THEN Ptr(ColorCyan)
    ELSE IF 200 <= status /\ status <= 299 THEN Ptr(ColorGreen)
    ELSE IF 300 <= status /\ status <= 399 THEN Ptr(ColorOrange)
    ELSE IF 400 <= status /\ status <= 499 THEN Ptr(ColorRed)
    ELSE IF 500 <= status /\ status <= 599 THEN Ptr(ColorFatalRed)
    ELSE NilPtr

\* a["status"] = status
SetStatus(a, status) ==
    [k \in (DOMAIN a) \cup {StatusKey} |-> IF k = StatusKey THEN VInt(status) ELSE a[k]]

StatusKeyColor == Ptr(StatusKey :> ColorOrange)

\* HttpLog.ensureStatusKey
ensureStatusKey(op, a, status, prefix) ==
    /\ Ready
    /\ logger.made
    /\ logger.http
    /\ \E it \in IterOrders(SetStatus(a, status)) :
         sink' = outputMap(logger, maxNameSize, maxPrefixSize, prefix, SetStatus(a, status),
                           it, FALSE, getStatusColor(status), StatusKeyColor)
    /\ call' = [NoCall EXCEPT !.op = op, !.prefix = prefix, !.arg = a,
                              !.fields = SetStatus(a, status),
                              !.pco = getStatusColor(status), !.mkco = StatusKeyColor]
    /\ UNCHANGED <<logger, pc, exitArg, exitCode, globals, concvars>>

HttpLog_GetMethod == \E a \in HttpFieldMaps, status \in Statuses :
    ensureStatusKey("GetMethod", a, status, HttpPrefixes[GetLevel])

HttpLog_DeleteMethod == \E a \in HttpFieldMaps, status \in Statuses :
    ensureStatusKey("DeleteMethod", a, status, HttpPrefixes[DeleteLevel])

HttpLog_ConnectMethod == \E a \in HttpFieldMaps, status \in Statuses :
    ensureStatusKey("ConnectMethod", a, status, HttpPrefixes[ConnectLevel])

HttpLog_HeadMethod == \E a \in HttpFieldMaps, status \in Statuses :
    ensureStatusKey("HeadMethod", a, status, HttpPrefixes[HeadLevel])

HttpLog_OptionsMethod == \E a \in HttpFieldMaps, status \in Statuses :
    ensureStatusKey("OptionsMethod", a, status, HttpPrefixes[OptionsLevel])

HttpLog_PostMethod == \E a \in HttpFieldMaps, status \in Statuses :
    ensureStatusKey("PostMethod", a, status, HttpPrefixes[PostLevel])

HttpLog_PutMethod == \E a \in HttpFieldMaps, status \in Statuses :
    ensureStatusKey("PutMethod", a, status, HttpPrefixes[PutLevel])

HttpLog_TraceMethod == \E a \in HttpFieldMaps, status \in Statuses :
    ensureStatusKey("TraceMethod", a, status, HttpPrefixes[TraceLevel])

HttpCalls ==
    \/ HttpLog_GetMethod \/ HttpLog_DeleteMethod \/ HttpLog_ConnectMethod
    \/ HttpLog_HeadMethod \/ HttpLog_OptionsMethod \/ HttpLog_PostMethod
    \/ HttpLog_PutMethod \/ HttpLog_TraceMethod

-----------------------------------------------------------------------------
(* The sequential specification: one caller, one Logger *)

Constructors(K) ==
    \/ New(K)
    \/ NewWithError(K)
    \/ NewWithName(K)
    \/ NewWithNameAndError(K)
    \/ NewHttpLogger(K)
    \/ NewHttpLoggerWithError(K)
    \/ NewHttpLoggerWithName(K)
    \/ NewHttpLoggerWithNameAndError(K)

Setters ==
    \/ WithColor \/ WithoutColor
    \/ WithDebug \/ WithoutDebug
    \/ WithTrace \/ WithoutTrace
    \/ WithTimestamp \/ WithoutTimestamp
    \/ Quiet \/ NoQuiet

LogCalls ==
    \/ Logger_Fatal \/ Logger_FatalWithCode \/ Logger_Fatalf
    \/ Logger_FatalWithCodef \/ Logger_FatalMap \/ Logger_FatalMapWithCode
    \/ Logger_Error \/ Logger_Errorf \/ Logger_ErrorMap
    \/ Logger_Warn \/ Logger_Warnf \/ Logger_WarnMap
    \/ Logger_Info \/ Logger_Infof \/ Logger_InfoMap
    \/ Logger_Debug \/ Logger_Debugf \/ Logger_DebugMap
    \/ Logger_Trace \/ Logger_Tracef \/ Logger_TraceMap
    \/ Logger_Log \/ Logger_Logf \/ Logger_LogMap

Next ==
    \/ Constructors({TRUE})
    \/ Setters
    \/ LogCalls
    \/ HttpCalls
    \/ OsExit
    \/ Observe

Spec == Init /\ [][Next]_vars

\* the same, where a Fatal variant that has rendered goes on to call os.Exit
FairSpec == Spec /\ WF_vars(OsExit)

-----------------------------------------------------------------------------
(* Properties of the sequential specification *)

\* every Write call of the last API call, the normal sink's first
Written == sink.out \o sink.err

Contains(s, sub) ==
    \E i \in 1..(Len(s) - Len(sub) + 1) : SubSeq(s, i, i + Len(sub) - 1) = sub

Newlines(s) == Cardinality({i \in 1..Len(s) : s[i] = "\n"})

\* the keys S in ascending order of Go's string comparison
Ascending(S) ==
    CHOOSE s \in RangeOrders(S) : \A i \in 1..(Len(s) - 1) : StrLess(s[i], s[i + 1])

\* the sink the calls of a severity are to write to
ErrSinkOps == FatalOps \cup ErrorOps

\* C1: whatever order the ranges over the field map and its nested maps yield
\* the keys in, outputMap renders them in ascending lexicographic order, so the
\* line written is the same for every iteration order.
C1_SortedKeysDeterministic ==
    (call.op \in MapOps /\ Written # <<>>) =>
        \A it \in IterOrders(call.fields) :
            /\ SortStrings(it.top) = Ascending(DOMAIN call.fields)
            /\ \A k \in DOMAIN call.fields :
                 SortStrings(it.inner[k]) = Ascending(DOMAIN call.fields[k].m)
            /\ Written = <<outputMapBytes(logger, maxNameSize, maxPrefixSize, call.prefix,
                                          call.fields, it, call.pco, call.mkco)>>

C1_Witness ==
    /\ call.op = "InfoMap"
    /\ call.fields = NestedMap
    /\ Len(sink.out) = 1
    /\ Cardinality(IterOrders(call.fields)) > 1

\* C2: a logging call on a quiet logger writes nothing to either sink, and a
\* Fatal variant on a quiet logger still goes on to os.Exit.
C2_QuietWritesNothing ==
    (call.op \in LogOps /\ logger.quiet) =>
        /\ sink = EmptySink
        /\ call.op \in FatalOps =>
             \/ pc = "exit" /\ ENABLED OsExit
             \/ pc = "dead" /\ exitCode = exitArg /\ exitCode >= 0

C2_Witness ==
    /\ logger.quiet
    /\ call.op = "FatalMapWithCode"
    /\ call.arg = FlatMap
    /\ pc = "dead"

\* C3: on a non-quiet logger Debug, Debugf and DebugMap write nothing while the
\* debug flag is false and exactly one line holding the [DEBUG] label, to the
\* normal sink, while it is true; WithDebug sets the flag, WithoutDebug clears it.
C3_DebugGate ==
    /\ (call.op \in DebugOps /\ ~logger.quiet) =>
          IF logger.debug
          THEN /\ Len(sink[logger.out]) = 1
               /\ Len(Written) = 1
               /\ Contains(Written[1], toPrefix(Debug))
               /\ Newlines(Written[1]) = 1
               /\ Written[1][Len(Written[1])] = "\n"
          ELSE sink = EmptySink
    /\ call.op = "WithDebug" => logger.debug
    /\ call.op = "WithoutDebug" => ~logger.debug

C3_Witness ==
    /\ call.op = "DebugMap"
    /\ logger.debug
    /\ ~logger.quiet
    /\ Len(sink.out) = 1

\* C4: on a non-quiet logger Trace, Tracef and TraceMap emit a line exactly
\* when the trace flag is set, whatever the debug flag.
C4_TraceGatedByTraceFlag ==
    (call.op \in TraceOps /\ ~logger.quiet) => ((Written # <<>>) <=> logger.trace)

\* the line a call of output or outputMap with the recorded arguments renders
IsRenderOf(line) ==
    IF call.op \in MapOps
    THEN \E it \in IterOrders(call.fields) :
            line = outputMapBytes(logger, maxNameSize, maxPrefixSize, call.prefix,
                                  call.fields, it, call.pco, call.mkco)
    ELSE line = outputBytes(logger, maxNameSize, maxPrefixSize, call.prefix,
                            call.data, call.pco)

\* C5: on a non-quiet logger a call that emits makes exactly one Write, of the
\* whole line: on the error sink for Fatal* and Error*, on the normal sink for
\* the others; Fatal*, Error*, Warn*, Info* and Log* always emit; a logger built
\* without an error sink has the normal sink as its error sink.
C5_OneWriteOnTheRightSink ==
    /\ (call.op \in (LogOps \ HttpOps) /\ ~logger.quiet
          /\ (call.op \in DebugOps \cup TraceOps => Written # <<>>)) =>
          LET w == IF call.op \in ErrSinkOps THEN logger.err ELSE logger.out
          IN  /\ Len(sink[w]) = 1
              /\ Len(Written) = 1
              /\ IsRenderOf(sink[w][1])
    /\ call.op \in {"New", "NewWithName", "NewHttpLogger", "NewHttpLoggerWithName"} =>
          logger.err = logger.out

C5_Witness ==
    /\ call.op = "Errorf"
    /\ ~logger.quiet
    /\ logger.err = "err"
    /\ Len(sink.err) = 1
    /\ sink.out = <<>>

\* C6: a Fatal variant never returns: once its render step is over (one Write on
\* the error sink, or none on a quiet logger) it calls os.Exit, with 1 for Fatal,
\* Fatalf and FatalMap and with the caller's status for the WithCode variants.
C6_FatalState ==
    /\ call.op \in FatalOps <=> pc \in {"exit", "dead"}
    /\ pc \in {"exit", "dead"} =>
          IF logger.quiet THEN sink = EmptySink
          ELSE Len(sink[logger.err]) = 1 /\ Len(Written) = 1
    /\ pc = "dead" <=> exitCode # -1
    /\ pc = "dead" =>
          exitCode = IF call.op \in {"Fatal", "Fatalf", "FatalMap"} THEN 1 ELSE call.code

C6_FatalExitsAfterRender ==
    /\ []C6_FatalState
    /\ [][pc = "dead" => pc' = "dead"]_vars
    /\ (pc = "exit") ~> (pc = "dead")

C6_Witness ==
    /\ call.op = "FatalWithCodef"
    /\ call.code = 2
    /\ pc = "dead"
    /\ exitCode = 2
    /\ ~logger.quiet
    /\ Len(sink[logger.err]) = 1

-----------------------------------------------------------------------------
(* The registry specification: any sequence of constructor calls, of which  *)
(* one returns the Logger under study, and renders by that Logger of each   *)
(* call shape.                                                              *)

RegNext ==
    \/ Constructors(BOOLEAN)
    \/ Logger_Info
    \/ Logger_Errorf
    \/ Logger_WarnMap
    \/ Logger_Log
    \/ HttpLog_PostMethod
    \/ Observe

RegSpec == Init /\ [][RegNext]_vars

\* the names registered so far
Registered == {regs[i] : i \in 1..Len(regs)}

StartsWith(s, p) == Len(p) <= Len(s) /\ SubSeq(s, 1, Len(p)) = p

\* the name column of a line of logger l when the name width is w: the name
\* segment padded to w, or w + 3 spaces for a logger without a name
NameColumn(l, w) ==
    IF Len(l.name) > 0
    THEN (IF l.color THEN ColorNicePurple ELSE <<>>)
         \o (IF l.nameFormatter.set THEN <<"{">> \o l.name \o <<"}", " ">>
             ELSE <<"<">> \o l.name \o <<">", " ">>)
         \o (IF l.color THEN colorOff ELSE <<>>)
         \o Spaces(w - Len(l.name))
    ELSE Spaces(w + 3)

\* the severity label of the last call as logger l writes it
LabelOf(l) ==
    IF l.color
    THEN (IF call.pco.set THEN call.pco.val ELSE call.prefix.Color)
         \o toPrefix(call.prefix.Text) \o colorOff
    ELSE toPrefix(call.prefix.Text)

C9_RegistryState ==
    /\ maxNameSize = MaxOf({Len(n) : n \in Registered})
    /\ (call.op \in LogOps /\ Written # <<>> /\ regs # <<>>) =>
          /\ Len(logger.name) <= maxNameSize
          /\ StartsWith(Written[1], NameColumn(logger, maxNameSize) \o LabelOf(logger))

\* C9: over any sequence of constructor calls and log calls maxNameSize and
\* maxPrefixSize never decrease, maxNameSize is the length of the longest name
\* registered, and every line rendered once a name is registered has its name
\* column padded for that width, whichever logger renders it.
C9_WidthsNeverShrink ==
    /\ [][maxNameSize' >= maxNameSize /\ maxPrefixSize' >= maxPrefixSize]_vars
    /\ []C9_RegistryState

C9_Witness ==
    /\ regs = << <<"s","v","c">>, <<"g","a","t","e","w","a","y">>, <<"a","b">> >>
    /\ logger.name = <<"s","v","c">>
    /\ maxNameSize = 7
    /\ call.op = "Info"
    /\ ~logger.color
    /\ StartsWith(Written[1], <<"<","s","v","c",">"," "," "," "," "," ","[","I","N","F","O","]">>)

-----------------------------------------------------------------------------
(* The race specification: one thread in a call of output and two threads in *)
(* configuration calls, all on the same Logger.  Each step of a thread makes *)
(* at most one access to a field a configuration call writes; the accesses   *)
(* of different threads interleave.                                          *)

Renderers == {"r"}
Configurers == {"s1", "s2"}

IdleThread == [pc |-> "idle", op |-> "none", prefix |-> NoPrefix, data |-> <<>>,
               isErr |-> FALSE, buf |-> <<>>]

Svc == <<"s","v","c">>

\* the calls of output the rendering thread may be in
RenderCalls ==
    {[op |-> "Error", prefix |-> StdPrefixes[Error], data |-> Sprintln(<<Hi>>), isErr |-> TRUE]}
    \cup {[op |-> "Log", prefix |-> p, data |-> Sprintln(<<Hi>>), isErr |-> FALSE] :
             p \in CustomPrefixes}

\* the state after l := NewWithNameAndError("svc", out, err), before the threads start
RaceInit ==
    /\ Prefixes = StdPrefixes
    /\ maxPrefixSize = scanPrefixes(StdPrefixes, 0)
    /\ maxNameSize = RegisterName(0, Svc)
    /\ httplogInit = FALSE
    /\ regs = <<Svc>>
    /\ logger \in {MkLogger(Svc, tty, "err", NilPtr, FALSE) : tty \in BOOLEAN}
    /\ pc = "run"
    /\ exitArg = -1
    /\ exitCode = -1
    /\ call = [NoCall EXCEPT !.op = "NewWithNameAndError"]
    /\ sink = EmptySink
    /\ thr = [t \in Renderers \cup Configurers |-> IdleThread]
    /\ mu = ""
    /\ pool = EmptyPool
    /\ stream = NoStream
    /\ icpt = NoIntercept

Step(t, from, next) ==
    /\ thr[t].pc = from
    /\ thr' = [thr EXCEPT ![t] = next]

RaceFrame == UNCHANGED <<globals, pc, exitArg, exitCode, call, pool, stream, icpt>>

\* the thread enters output (fancylog.go:382)
output_enter(t) ==
    /\ \E c \in RenderCalls :
         Step(t, "idle", [pc |-> "quiet", op |-> c.op, prefix |-> c.prefix, data |-> c.data,
                          isErr |-> c.isErr, buf |-> <<>>])
    /\ UNCHANGED <<logger, sink, mu>> /\ RaceFrame

\* fancylog.go:385: l.IsQuiet(); then the stack capture and the buffer
output_quiet(t) ==
    /\ Step(t, "quiet",
            [thr[t] EXCEPT !.pc = IF IsQuiet(logger) THEN "done"
                                  ELSE IF Len(logger.name) > 0 THEN "name_on" ELSE "prefix",
                           !.buf = IF IsQuiet(logger) \/ Len(logger.name) > 0 THEN <<>>
                                   ELSE namePadBytes(logger.name, maxNameSize)])
    /\ UNCHANGED <<logger, sink, mu>> /\ RaceFrame

\* fancylog.go:331-341: writeName up to the name
output_name_on(t) ==
    /\ Step(t, "name_on",
            [thr[t] EXCEPT !.pc = "name_off",
                           !.buf = @ \o writeNameBytes(logger.color, FALSE, logger.name,
                                                       logger.nameFormatter)])
    /\ UNCHANGED <<logger, sink, mu>> /\ RaceFrame

\* fancylog.go:343-345, 403-412: the end of writeName, then the padding
output_name_off(t) ==
    /\ Step(t, "name_off",
            [thr[t] EXCEPT !.pc = "prefix",
                           !.buf = @ \o (IF logger.color THEN colorOff ELSE <<>>)
                                     \o namePadBytes(logger.name, maxNameSize)])
    /\ UNCHANGED <<logger, sink, mu>> /\ RaceFrame

\* fancylog.go:414: writePrefix
output_prefix(t) ==
    /\ Step(t, "prefix",
            [thr[t] EXCEPT !.pc = "timestamp",
                           !.buf = @ \o writePrefixBytes(logger.color, thr[t].prefix,
                                                         maxPrefixSize, NilPtr)])
    /\ UNCHANGED <<logger, sink, mu>> /\ RaceFrame

\* fancylog.go:417: if l.timestamp; without a timestamp the message follows
output_timestamp(t) ==
    /\ Step(t, "timestamp",
            IF logger.timestamp THEN [thr[t] EXCEPT !.pc = "time_on"]
            ELSE [thr[t] EXCEPT !.pc = IF thr[t].prefix.File THEN "stack_on" ELSE "write",
                                !.buf = @ \o dataBytes(thr[t].data)])
    /\ UNCHANGED <<logger, sink, mu>> /\ RaceFrame

\* fancylog.go:314: writeTime reads l.color
output_time_on(t) ==
    /\ Step(t, "time_on",
            IF logger.color THEN [thr[t] EXCEPT !.pc = "time_color"]
            ELSE [thr[t] EXCEPT !.pc = "time_fn"])
    /\ UNCHANGED <<logger, sink, mu>> /\ RaceFrame

\* fancylog.go:315-319: writeTime reads l.timestampColor
output_time_color(t) ==
    /\ Step(t, "time_color",
            [thr[t] EXCEPT !.pc = "time_fn",
                           !.buf = @ \o (IF logger.timestampColor.set
                                         THEN logger.timestampColor.val ELSE ColorBlue)])
    /\ UNCHANGED <<logger, sink, mu>> /\ RaceFrame

\* fancylog.go:322-323: l.getTimeFunc()(), AppendTime, AppendSpace
output_time_fn(t) ==
    /\ Step(t, "time_fn",
            [thr[t] EXCEPT !.pc = "time_off",
                           !.buf = @ \o AppendTime(getTimeFunc(logger).time,
                                                   getTimeFunc(logger).layout)
                                     \o <<" ">>])
    /\ UNCHANGED <<logger, sink, mu>> /\ RaceFrame

\* fancylog.go:325-327, 422-425: the end of writeTime, then the message
output_time_off(t) ==
    /\ Step(t, "time_off",
            [thr[t] EXCEPT !.pc = IF thr[t].prefix.File THEN "stack_on" ELSE "write",
                           !.buf = @ \o (IF logger.color THEN colorOff ELSE <<>>)
                                     \o dataBytes(thr[t].data)])
    /\ UNCHANGED <<logger, sink, mu>> /\ RaceFrame

\* fancylog.go:370-374: writeStack up to the stack
output_stack_on(t) ==
    /\ Step(t, "stack_on",
            [thr[t] EXCEPT !.pc = "stack_off",
                           !.buf = @ \o writeStackBytes(logger.color, FALSE, StackTrace)])
    /\ UNCHANGED <<logger, sink, mu>> /\ RaceFrame

\* fancylog.go:376-378: the end of writeStack
output_stack_off(t) ==
    /\ Step(t, "stack_off",
            [thr[t] EXCEPT !.pc = "write",
                           !.buf = @ \o (IF logger.color THEN colorOff ELSE <<>>)])
    /\ UNCHANGED <<logger, sink, mu>> /\ RaceFrame

\* fancylog.go:431-438: the Write, b.Free(), return
output_write(t) ==
    /\ Step(t, "write", [thr[t] EXCEPT !.pc = "done"])
    /\ sink' = [sink EXCEPT ![SinkOf(logger, thr[t].isErr)] = Append(@, thr[t].buf)]
    /\ UNCHANGED <<logger, mu>> /\ RaceFrame

\* the thread calls one of the configuration functions
setter_enter(t) ==
    /\ \E op \in SetterOps :
         Step(t, "idle", [IdleThread EXCEPT !.pc = IF Locks(op) THEN "lock" ELSE "assign",
                                            !.op = op])
    /\ UNCHANGED <<logger, sink, mu>> /\ RaceFrame

\* l.mu.Lock()
setter_lock(t) ==
    /\ mu = ""
    /\ Step(t, "lock", [thr[t] EXCEPT !.pc = "assign"])
    /\ mu' = t
    /\ UNCHANGED <<logger, sink>> /\ RaceFrame

\* the assignment to the field
setter_assign(t) ==
    /\ Step(t, "assign", [thr[t] EXCEPT !.pc = IF Locks(thr[t].op) THEN "unlock" ELSE "done"])
    /\ logger' = Assign(thr[t].op, logger)
    /\ UNCHANGED <<sink, mu>> /\ RaceFrame

\* the deferred l.mu.Unlock(), and the return
setter_unlock(t) ==
    /\ mu = t
    /\ Step(t, "unlock", [thr[t] EXCEPT !.pc = "done"])
    /\ mu' = ""
    /\ UNCHANGED <<logger, sink>> /\ RaceFrame

RaceNext ==
    \/ \E t \in Renderers :
         \/ output_enter(t) \/ output_quiet(t) \/ output_name_on(t) \/ output_name_off(t)
         \/ output_prefix(t) \/ output_timestamp(t) \/ output_time_on(t)
         \/ output_time_color(t) \/ output_time_fn(t) \/ output_time_off(t)
         \/ output_stack_on(t) \/ output_stack_off(t) \/ output_write(t)
    \/ \E t \in Configurers :
         \/ setter_enter(t) \/ setter_lock(t) \/ setter_assign(t) \/ setter_unlock(t)

RaceSpec == RaceInit /\ [][RaceNext]_vars

\* the Logger as a render could have read it once: the fields the configuration
\* calls write, each at one value
Snapshots(l) ==
    {[l EXCEPT !.color = c, !.timestamp = ts, !.quiet = FALSE,
               !.timestampColor = tc, !.timestampFn = tf] :
        c \in BOOLEAN, ts \in BOOLEAN,
        tc \in {NilPtr, Ptr(ColorRed)}, tf \in {NilPtr, Ptr(KitchenClock)}}

\* C7: every line a render emits while configuration calls run on the same
\* logger is the line of one configuration: one value of each flag for all of
\* its segments.
C7_NoTornRender ==
    \A t \in DOMAIN thr : \A w \in {"out", "err"} : \A i \in 1..Len(sink[w]) :
        thr[t].pc = "done" /\ t \in Renderers =>
            \E snap \in Snapshots(logger) :
                sink[w][i] = outputBytes(snap, maxNameSize, maxPrefixSize,
                                         thr[t].prefix, thr[t].data, NilPtr)

\* C8: a thread that is at the assignment of a configuration call holds the
\* logger's mutex, so no two threads are at assignments at once.
C8_AssignsUnderMutex ==
    /\ \A t \in DOMAIN thr : thr[t].pc = "assign" => mu = t
    /\ \A t, u \in DOMAIN thr : (thr[t].pc = "assign" /\ thr[u].pc = "assign") => t = u

-----------------------------------------------------------------------------
(* The constructor specification: threads that each call one named           *)
(* constructor.  The comparison of maxNameSize with len(name) and the        *)
(* assignment that follows it are two accesses to the package variable, and  *)
(* the accesses of different threads interleave.                             *)

Callers == {"c1", "c2", "c3"}

NamedCtors == {"NewWithName", "NewWithNameAndError",
               "NewHttpLoggerWithName", "NewHttpLoggerWithNameAndError"}

HttpCtors == {"NewHttpLoggerWithName", "NewHttpLoggerWithNameAndError"}

IdleCaller == [pc |-> "idle", op |-> "none", name |-> <<>>]

CtorInit ==
    /\ Prefixes = StdPrefixes
    /\ maxNameSize = 0
    /\ maxPrefixSize = 0
    /\ httplogInit = FALSE
    /\ regs = <<>>
    /\ logger = NoLogger
    /\ pc = "run"
    /\ exitArg = -1
    /\ exitCode = -1
    /\ call = NoCall
    /\ sink = EmptySink
    /\ thr = [t \in Callers |-> IdleCaller]
    /\ mu = ""
    /\ pool = EmptyPool
    /\ stream = NoStream
    /\ icpt = NoIntercept

CtorFrame == UNCHANGED <<logger, pc, exitArg, exitCode, call, sink, mu, pool,
                         stream, icpt>>

\* the thread calls a named constructor
ctor_enter(t) ==
    /\ \E op \in NamedCtors, name \in Names :
         Step(t, "idle", [pc |-> "scan", op |-> op, name |-> name])
    /\ UNCHANGED globals /\ CtorFrame

\* scanPrefixes() (fancylog.go:154, 171) or httplogInit.Do(httplogInitalizer)
\* (part_001:120, 140)
ctor_scan(t) ==
    /\ Step(t, "scan", [thr[t] EXCEPT !.pc = "check"])
    /\ IF thr[t].op \in HttpCtors
       THEN /\ IF httplogInit
               THEN UNCHANGED <<Prefixes, maxPrefixSize>>
               ELSE httplogInitalizer
            /\ httplogInit' = TRUE
       ELSE /\ maxPrefixSize' = scanPrefixes(Prefixes, maxPrefixSize)
            /\ UNCHANGED <<Prefixes, httplogInit>>
    /\ UNCHANGED <<maxNameSize, regs>> /\ CtorFrame

\* if maxNameSize < len(name) (fancylog.go:155, 172; part_001:121, 141)
ctor_check(t) ==
    /\ Step(t, "check", [thr[t] EXCEPT !.pc = IF maxNameSize < Len(thr[t].name)
                                              THEN "set" ELSE "return"])
    /\ UNCHANGED <<Prefixes, maxNameSize, maxPrefixSize, httplogInit, regs>> /\ CtorFrame

\* maxNameSize = len(name) (fancylog.go:156, 173; part_001:122, 142)
ctor_set(t) ==
    /\ Step(t, "set", [thr[t] EXCEPT !.pc = "return"])
    /\ maxNameSize' = Len(thr[t].name)
    /\ UNCHANGED <<Prefixes, maxPrefixSize, httplogInit, regs>> /\ CtorFrame

\* return &Logger{name: name, ...}
ctor_return(t) ==
    /\ Step(t, "return", [thr[t] EXCEPT !.pc = "done"])
    /\ regs' = Append(regs, thr[t].name)
    /\ UNCHANGED <<Prefixes, maxNameSize, maxPrefixSize, httplogInit>> /\ CtorFrame

CtorNext ==
    \E t \in Callers :
        \/ ctor_enter(t) \/ ctor_scan(t) \/ ctor_check(t) \/ ctor_set(t) \/ ctor_return(t)

CtorSpec == CtorInit /\ [][CtorNext]_vars

AllReturned == \A t \in DOMAIN thr : thr[t].pc = "done"

\* C10: under every interleaving of named constructors in different threads,
\* maxNameSize never decreases from one state to the next, and once every
\* constructor has returned it is the length of the longest name registered.
C10_RegistrationSynchronized ==
    /\ [][maxNameSize' >= maxNameSize]_vars
    /\ [](AllReturned => maxNameSize = MaxOf({Len(regs[i]) : i \in 1..Len(regs)}))

-----------------------------------------------------------------------------
(* Properties of the rendered bytes *)

Escape == "ESC"

HasEscape(line) == \E i \in 1..Len(line) : line[i] = Escape

\* C11: while the logger's colour flag is false no line written by a logging
\* call holds an escape byte, whatever the call: output, outputMap with or
\* without a prefix colour override, outputMap with a colour for one of its keys.
C11_PlainWhenColourOff ==
    (call.op \in LogOps /\ ~logger.color) =>
        \A i \in 1..Len(Written) : ~HasEscape(Written[i])


\* the index of the "[" that opens the severity label of a line: the first one
\* that is not part of an escape sequence (0 when there is none)
LabelAt(line) ==
    LET S == {i \in 1..Len(line) : line[i] = "[" /\ (i = 1 \/ line[i - 1] # Escape)}
    IN  IF S = {} THEN 0 ELSE CHOOSE i \in S : \A j \in S : i <= j

\* the bytes of line from index i on
From(line, i) == SubSeq(line, i, Len(line))

\* C12: with the colour flag true the severity label of a written line is the
\* colour-on bytes, "[" LEVEL "]", then the colour-off bytes; colour-on is the
\* call's prefix colour override when there is one, else the Prefix's colour.
C12_LabelColoured ==
    (call.op \in LogOps /\ logger.color) =>
        \A i \in 1..Len(Written) :
            LET line == Written[i]
                on == IF call.pco.set THEN call.pco.val ELSE call.prefix.Color
                at == LabelAt(line)
            IN  /\ at > Len(on)
                /\ SubSeq(line, at - Len(on), at - 1) = on
                /\ StartsWith(From(line, at),
                              <<"[">> \o call.prefix.Text \o <<"]">> \o colorOff)
                /\ mixer(toPrefix(call.prefix.Text), on)
                     = on \o <<"[">> \o call.prefix.Text \o <<"]">> \o colorOff

\* a label coloured by the override of a per-method call, not by its Prefix
C12_Witness ==
    /\ logger.color
    /\ call.op = "PostMethod"
    /\ call.pco = Ptr(ColorRed)
    /\ call.prefix.Color # ColorRed
    /\ Len(sink.out) = 1
    /\ Contains(sink.out[1], ColorRed \o <<"[","P","O","S","T","]">> \o colorOff)


\* the calls that render with output
OutputOps == LogOps \ MapOps

\* the number of newlines a byte string ends in
RECURSIVE TrailingNewlines(_)
TrailingNewlines(s) ==
    IF s = <<>> \/ s[Len(s)] # "\n" THEN 0
    ELSE 1 + TrailingNewlines(SubSeq(s, 1, Len(s) - 1))

-----------------------------------------------------------------------------
(* Properties of the name column *)

\* the number of characters a line renders before its severity label
LabelColumn(line) == LabelAt(line) - 1

\* the column every logger of the process starts its severity label in when
\* the name width is w
SharedColumn(w) == IF w = 0 THEN 0 ELSE w + 3

\* C14: with colour off, whatever names have been registered, the line of any
\* logger, with or without a name, under the default name wrapping or the
\* "{%s}" template, has a number of characters before its severity label that
\* depends on the registry alone, so all loggers start their labels in one
\* column; a logger whose name is as long as maxNameSize has no padding after
\* its "<name> " segment.
C14_LabelsAligned ==
    (call.op \in LogOps /\ ~logger.color) =>
        \A i \in 1..Len(Written) :
            /\ LabelColumn(Written[i]) = SharedColumn(maxNameSize)
            /\ (Len(logger.name) > 0 /\ Len(logger.name) = maxNameSize) =>
                  \/ StartsWith(Written[i], <<"<">> \o logger.name \o <<">", " ", "[">>)
                  \/ StartsWith(Written[i], <<"{">> \o logger.name \o <<"}", " ", "[">>)

\* an unnamed logger rendering after a seven-byte name has been registered
C14_Witness ==
    /\ ~logger.color
    /\ logger.made
    /\ logger.name = <<>>
    /\ maxNameSize = 7
    /\ call.op = "Info"
    /\ Len(sink.out) = 1
    /\ LabelColumn(sink.out[1]) = 10


-----------------------------------------------------------------------------
(* Properties of the arguments *)

\* C15: a call that takes a field map from its caller leaves the map with the
\* keys and values it had before the call.
C15_FieldMapUntouched ==
    call.op \in MapOps => call.fields = call.arg


-----------------------------------------------------------------------------
(* Properties of the configuration calls *)

\* the flag each fluent toggle is to set, and the value it is to have after it
ToggleFlag(op) ==
    CASE op \in {"WithColor", "WithoutColor"}         -> "color"
      [] op \in {"WithDebug", "WithoutDebug"}         -> "debug"
      [] op \in {"WithTrace", "WithoutTrace"}         -> "trace"
      [] op \in {"WithTimestamp", "WithoutTimestamp"} -> "timestamp"
      [] op \in {"Quiet", "NoQuiet"}                  -> "quiet"

ToggleValue(op) == op \in {"WithColor", "WithDebug", "WithTrace", "WithTimestamp", "Quiet"}

\* one step of a fluent toggle: its flag gets its value, every other field of
\* the logger and both widths stay, the receiver is returned
ToggleStep ==
    call'.op \in ToggleOps =>
        /\ logger'[ToggleFlag(call'.op)] = ToggleValue(call'.op)
        /\ \A f \in (DOMAIN logger) \ {ToggleFlag(call'.op)} : logger'[f] = logger[f]
        /\ DOMAIN logger' = DOMAIN logger
        /\ maxNameSize' = maxNameSize /\ maxPrefixSize' = maxPrefixSize
        /\ Prefixes' = Prefixes
        /\ call'.ret = "l"
        /\ call.op = call'.op => logger' = logger

\* a logging call that follows is gated and rendered by the flags as they are
\* after the toggles before it
RenderedAsConfigured ==
    call.op \in (LogOps \ HttpOps) =>
        /\ logger.quiet => Written = <<>>
        /\ (~logger.quiet /\ call.op \in DebugOps) => (Written # <<>> <=> logger.debug)
        /\ (~logger.quiet /\ call.op \in TraceOps) => (Written # <<>> <=> logger.trace)
        /\ \A i \in 1..Len(Written) :
              /\ IsRenderOf(Written[i])
              /\ HasEscape(Written[i]) <=> logger.color
              /\ Contains(Written[i], AppendTime(getTimeFunc(logger).time,
                                                 getTimeFunc(logger).layout))
                   <=> logger.timestamp

\* C16: each fluent toggle sets exactly its own flag to its value, leaves the
\* other fields of the logger and the two widths as they were, returns the
\* logger it was called on and changes nothing when repeated; the logging call
\* that follows is gated and rendered with the flags so set.
C16_TogglesSetOneFlag ==
    /\ [][ToggleStep]_vars
    /\ []RenderedAsConfigured


-----------------------------------------------------------------------------
(* A worked line *)

\* C17: when maxNameSize is 3 and maxPrefixSize is 5, Info("started") on the
\* logger named "svc", colour off and timestamp off, writes the bytes
\* "<svc> [INFO]  started\n" on the normal sink and nothing on the error sink.
C17_WorkedLine ==
    (/\ call.op = "Info"
     /\ call.data = Sprintln(<<Started>>)
     /\ logger.name = <<"s","v","c">>
     /\ ~logger.nameFormatter.set
     /\ ~logger.color /\ ~logger.timestamp /\ ~logger.quiet
     /\ maxNameSize = 3 /\ maxPrefixSize = 5) =>
        /\ sink[logger.out] = << <<"<","s","v","c",">"," ","[","I","N","F","O","]"," "," ",
                                   "s","t","a","r","t","e","d","\n">> >>
        /\ logger.err # logger.out => sink[logger.err] = <<>>

C17_Witness ==
    /\ call.op = "Info"
    /\ call.data = <<"s","t","a","r","t","e","d","\n">>
    /\ logger.name = <<"s","v","c">>
    /\ ~logger.nameFormatter.set
    /\ ~logger.color /\ ~logger.timestamp /\ ~logger.quiet
    /\ maxNameSize = 3 /\ maxPrefixSize = 5
    /\ logger.err = "err"
    /\ Len(sink.out) = 1
    /\ sink.err = <<>>


-----------------------------------------------------------------------------
(* The pool specification: threads that each make up to MaxCalls calls of   *)
(* output or outputMap on one Logger whose configuration does not change.   *)
(* A step of a thread is a stretch of the function between two uses of the  *)
(* buffer pool or of a sink.                                                *)

Workers == {"w1", "w2"}

Gateway == <<"g","a","t","e","w","a","y">>

\* pc: where the thread is; map: in outputMap rather than output; stack: the
\* local variable stack; b: the buffer of its ColorLogger, 0 when it has none;
\* gets, frees: the Get and Free calls of its current call; wrote: its current
\* call has made its Write; line: the bytes of that Write; n: the calls begun
IdleWorker == [pc |-> "idle", op |-> "none", map |-> FALSE, prefix |-> NoPrefix,
               data |-> <<>>, fields |-> <<>>, isErr |-> FALSE, stack |-> <<>>,
               b |-> 0, gets |-> 0, frees |-> 0, wrote |-> FALSE, line |-> <<>>, n |-> 0]

\* the calls of output and outputMap the threads make
PoolCalls ==
    {[op |-> "Error", map |-> FALSE, prefix |-> StdPrefixes[Error],
      data |-> Sprintln(<<Hi>>), fields |-> <<>>, isErr |-> TRUE],
     [op |-> "Log", map |-> FALSE, prefix |-> MkPrefix(<<"C","R","I","T","I","C","A","L">>, ColorRed, TRUE),
      data |-> Sprintln(<<Hi>>), fields |-> <<>>, isErr |-> FALSE],
     [op |-> "InfoMap", map |-> TRUE, prefix |-> StdPrefixes[Info],
      data |-> <<>>, fields |-> FlatMap, isErr |-> FALSE]}

\* the Loggers of the pool specification: NewWithNameAndError("svc", out, err)
\* or NewWithError(out, err) after NewWithName("gateway", out), then toggles
PoolLoggers ==
    {[MkLogger(name, tty, "err", NilPtr, FALSE) EXCEPT !.timestamp = ts, !.quiet = q] :
        name \in {<<>>, Svc}, tty \in BOOLEAN, ts \in BOOLEAN, q \in BOOLEAN}

PoolInit ==
    /\ Prefixes = StdPrefixes
    /\ maxPrefixSize = scanPrefixes(StdPrefixes, 0)
    /\ maxNameSize = RegisterName(RegisterName(0, Gateway), Svc)
    /\ httplogInit = FALSE
    /\ regs = <<Gateway, Svc>>
    /\ logger \in PoolLoggers
    /\ pc = "run"
    /\ exitArg = -1
    /\ exitCode = -1
    /\ call = NoCall
    /\ sink = EmptySink
    /\ thr = [t \in Workers |-> IdleWorker]
    /\ mu = ""
    /\ pool = EmptyPool
    /\ stream = NoStream
    /\ icpt = NoIntercept

PoolFrame == UNCHANGED <<globals, logger, pc, exitArg, exitCode, call, mu,
                         stream, icpt>>

\* the thread enters output (fancylog.go:382) or outputMap (fancylog.go:441)
render_enter(t) ==
    /\ thr[t].n < MaxCalls
    /\ \E c \in PoolCalls :
         Step(t, "idle", [IdleWorker EXCEPT !.pc = "quiet", !.op = c.op, !.map = c.map,
                                            !.prefix = c.prefix, !.data = c.data,
                                            !.fields = c.fields, !.isErr = c.isErr,
                                            !.n = thr[t].n + 1])
    /\ UNCHANGED <<sink, pool>> /\ PoolFrame

\* fancylog.go:385-387, 448-450: if l.IsQuiet() { return }
render_quiet(t) ==
    /\ Step(t, "quiet", [thr[t] EXCEPT !.pc = IF IsQuiet(logger) THEN "idle" ELSE "stack"])
    /\ UNCHANGED <<sink, pool>> /\ PoolFrame

\* fancylog.go:390-395, 453-458: var stack string; if prefix.File { stack = ... }
render_stack(t) ==
    /\ Step(t, "stack", [thr[t] EXCEPT !.pc = "get",
                                       !.stack = IF thr[t].prefix.File THEN StackTrace ELSE <<>>])
    /\ UNCHANGED <<sink, pool>> /\ PoolFrame

\* the buffers Get may return: one that was put back, or a new one
Gettable == pool.idle \cup (IF pool.made < MaxBufs THEN {pool.made + 1} ELSE {})

\* fancylog.go:396-398, 460-463: b := NewColorLogger() (color.go:17-19, 38-40), b.Reset()
render_get(t) ==
    /\ \E b \in Gettable :
         /\ Step(t, "get", [thr[t] EXCEPT !.pc = "fill", !.b = b, !.gets = @ + 1])
         /\ pool' = [idle |-> pool.idle \ {b},
                     made |-> IF b > pool.made THEN b ELSE pool.made]
    /\ UNCHANGED sink /\ PoolFrame

\* a plausible bug: writeStack is called before the message is appended
outputWith_stackFirst(l, mns, mps, prefix, data, stack) ==
    preambleBytes(l, mns, mps, prefix, NilPtr)
    \o (IF prefix.File THEN writeStackBytes(l.color, l.color, stack) ELSE <<>>)
    \o dataBytes(data)

\* the buffer of output at the Write when the local variable stack holds stack
\* (fancylog.go:399-429)
outputWith(l, mns, mps, prefix, data, stack) ==
    preambleBytes(l, mns, mps, prefix, NilPtr)
    \o dataBytes(data)
    \o (IF prefix.File THEN writeStackBytes(l.color, l.color, stack) ELSE <<>>)

\* fancylog.go:399-429, 464-579: the line is put together in the buffer
render_fill(t) ==
    /\ \E it \in IterOrders(thr[t].fields) :
         Step(t, "fill",
              [thr[t] EXCEPT !.pc = "write",
                             !.line = IF thr[t].map
                                      THEN outputMapBytes(logger, maxNameSize, maxPrefixSize,
                                                          thr[t].prefix, thr[t].fields, it,
                                                          NilPtr, NilPtr)
                                      ELSE outputWith(logger, maxNameSize, maxPrefixSize,
                                                      thr[t].prefix, thr[t].data,
                                                      thr[t].stack)])
    /\ UNCHANGED <<sink, pool>> /\ PoolFrame

\* fancylog.go:431-435, 581-585: the Write of b.Bytes(); each sink shows the
\* last Write made on it
render_write(t) ==
    /\ Step(t, "write", [thr[t] EXCEPT !.pc = "free", !.wrote = TRUE])
    /\ sink' = [sink EXCEPT ![SinkOf(logger, thr[t].isErr)] = <<thr[t].line>>]
    /\ UNCHANGED pool /\ PoolFrame

\* a plausible bug: the call returns without b.Free()
render_free_leak(t) ==
    /\ Step(t, "free", [thr[t] EXCEPT !.pc = "idle", !.b = 0])
    /\ UNCHANGED <<sink, pool>> /\ PoolFrame

\* fancylog.go:437-438, 587-588: b.Free(), return
render_free(t) ==
    /\ Step(t, "free", [thr[t] EXCEPT !.pc = "idle", !.b = 0, !.frees = @ + 1])
    /\ pool' = [pool EXCEPT !.idle = @ \cup {thr[t].b}]
    /\ UNCHANGED sink /\ PoolFrame

PoolNext ==
    \E t \in Workers :
        \/ render_enter(t) \/ render_quiet(t) \/ render_stack(t) \/ render_get(t)
        \/ render_fill(t) \/ render_write(t) \/ render_free(t)

PoolSpec == PoolInit /\ [][PoolNext]_vars


\* the buffers some thread has taken and not put back
Outstanding == {thr[t].b : t \in DOMAIN thr} \ {0}

\* where a thread is while it has a buffer
Holding == {"fill", "write", "free"}

PoolState ==
    /\ \A t \in DOMAIN thr :
         /\ thr[t].pc \in {"quiet", "stack", "get"} =>
               thr[t].b = 0 /\ thr[t].gets = 0 /\ thr[t].frees = 0
         /\ thr[t].pc \in Holding =>
               /\ thr[t].b # 0 /\ thr[t].gets = 1 /\ thr[t].frees = 0
               /\ thr[t].b \notin pool.idle
               /\ ~logger.quiet
         /\ thr[t].pc = "idle" =>
               /\ thr[t].b = 0
               /\ thr[t].frees = thr[t].gets
               /\ thr[t].n > 0 => thr[t].gets = (IF logger.quiet THEN 0 ELSE 1)
               /\ thr[t].n > 0 => (thr[t].wrote <=> ~logger.quiet)
    /\ \A t, u \in DOMAIN thr : (t # u /\ thr[t].b # 0) => thr[t].b # thr[u].b
    /\ pool.idle \cup Outstanding = 1..pool.made
    /\ (\A t \in DOMAIN thr : thr[t].pc = "idle") => Outstanding = {} /\ pool.idle = 1..pool.made

\* a buffer is put back by the thread that holds it, after its Write
FreeStep ==
    \A t \in DOMAIN thr :
        thr'[t].frees > thr[t].frees =>
            /\ thr[t].wrote
            /\ thr[t].b \in pool'.idle
            /\ thr'[t].pc = "idle"

\* C18: each call of output or outputMap on a non-quiet logger takes one buffer
\* from the pool and puts it back once, after its Write and before it returns;
\* a call on a quiet logger takes none; so when no call is running no buffer
\* is outstanding, and two calls running at once never have the same buffer.
C18_OneBufferPerCall ==
    /\ []PoolState
    /\ [][FreeStep]_vars

\* two threads each holding a buffer, one of them a buffer that was put back
\* by an earlier call
C18_Witness ==
    /\ thr["w1"].pc = "write" /\ thr["w2"].pc = "fill"
    /\ thr["w1"].b = 1 /\ thr["w2"].b = 2
    /\ thr["w1"].n = 2
    /\ pool.made = 2
    /\ Len(sink.out) + Len(sink.err) = 1


\* the timestamp the default clock renders
Stamp ==
    <<"2","0","2","4","-","0","1","-","0","2","T">>
    \o <<Digits[(ClockNow \div 10) + 1], Digits[(ClockNow % 10) + 1]>>
    \o <<":","0","0",":","0","0","Z">>

\* the segments of the line of a call of output by thread t, spelled out
NameSegment(l) ==
    IF Len(l.name) > 0
    THEN (IF l.color THEN ColorNicePurple ELSE <<>>)
         \o <<"<">> \o l.name \o <<">", " ">>
         \o (IF l.color THEN colorOff ELSE <<>>)
    ELSE <<>>

NamePadding(l) == Spaces(maxNameSize - Len(l.name) + (IF Len(l.name) = 0 THEN 3 ELSE 0))

LabelSegment(l, p) ==
    (IF l.color THEN p.Color ELSE <<>>)
    \o <<"[">> \o p.Text \o <<"]">>
    \o (IF l.color THEN colorOff ELSE <<>>)
    \o Spaces(IF maxPrefixSize > Len(p.Text) THEN maxPrefixSize - Len(p.Text) ELSE 0)
    \o <<" ">>

TimeSegment(l) ==
    IF l.timestamp
    THEN (IF l.color THEN ColorBlue ELSE <<>>) \o Stamp \o <<" ">>
         \o (IF l.color THEN colorOff ELSE <<>>)
    ELSE <<>>

MessageSegment(data) ==
    IF data # <<>> /\ data[Len(data)] = "\n" THEN data ELSE data \o <<"\n">>

StackSegment(l, p) ==
    IF p.File
    THEN (IF l.color THEN ColorOrange ELSE <<>>) \o StackTrace
         \o (IF l.color THEN colorOff ELSE <<>>)
    ELSE <<>>

SegmentsState ==
    /\ \A t \in DOMAIN thr :
         /\ (thr[t].wrote /\ ~thr[t].map) =>
               thr[t].line = NameSegment(logger) \o NamePadding(logger)
                             \o LabelSegment(logger, thr[t].prefix)
                             \o TimeSegment(logger)
                             \o MessageSegment(thr[t].data)
                             \o StackSegment(logger, thr[t].prefix)
         /\ (thr[t].b # 0 /\ thr[t].prefix.File) => thr[t].stack = StackTrace
         /\ ~thr[t].prefix.File => thr[t].stack = <<>>
    /\ \A lv \in StdLevels : Prefixes[lv].File => lv \in {Fatal, Trace}
    /\ \A lv \in StdLevels : StdPrefixes[lv].File <=> lv \in {Fatal, Trace}

\* the stack is captured while the thread has no buffer yet
StackStep ==
    \A t \in DOMAIN thr :
        thr'[t].stack # thr[t].stack => (thr[t].b = 0 /\ thr'[t].b = 0)

\* C19: a line of output is, in this order, the name segment, the name
\* padding, the severity label with its padding, the timestamp and a space
\* exactly when the timestamp flag is set, the message with its newline, the
\* stack trace exactly when the prefix's File flag is set.  The stack is
\* captured before the buffer is taken; of the standard levels only Fatal and
\* Trace have the File flag.
C19_SegmentOrder ==
    /\ []SegmentsState
    /\ [][StackStep]_vars

\* a line with every segment: name, padding, label, timestamp, message, stack
C19_Witness ==
    /\ logger.name = Svc /\ logger.timestamp /\ ~logger.color
    /\ thr["w1"].op = "Log" /\ thr["w1"].wrote /\ thr["w1"].prefix.File
    /\ sink.out = <<thr["w1"].line>>
    /\ StartsWith(thr["w1"].line,
                  <<"<","s","v","c",">"," "," "," "," "," ",
                    "[","C","R","I","T","I","C","A","L","]"," ">> \o Stamp \o <<" ","h","i","\n","\t">>)


-----------------------------------------------------------------------------
(* The gutter of a logger without a name *)

\* the number of spaces a line starts with
RECURSIVE LeadingSpaces(_)
LeadingSpaces(s) ==
    IF s = <<>> \/ Head(s) # " " THEN 0 ELSE 1 + LeadingSpaces(Tail(s))

\* C20: a logger without a name renders maxNameSize + 3 spaces before its
\* severity label, so at least 3, whatever maxNameSize is, 0 included.
C20_UnnamedGutter ==
    (call.op \in LogOps /\ logger.name = <<>> /\ ~logger.color) =>
        \A i \in 1..Len(Written) :
            /\ LeadingSpaces(Written[i]) = maxNameSize + 3
            /\ LabelAt(Written[i]) = maxNameSize + 4


-----------------------------------------------------------------------------
(* Properties of the label column and of the level registry *)

\* the bytes of a line after its bracketed severity label (and the colour-off
\* bytes that close it when the logger has colour)
AfterLabel(line, text, colored) ==
    From(line, LabelAt(line) + Len(text) + 2 + (IF colored THEN Len(colorOff) ELSE 0))

\* C21: once a constructor has returned, maxPrefixSize is at least the length
\* of every label of the Prefixes registry, and on every line rendered, for a
\* standard, an HTTP or a caller-defined prefix, the bracketed label is
\* followed by exactly maxPrefixSize - len(label) + 1 spaces.
C21_LabelColumnWidth ==
    /\ logger.made => \A lv \in DOMAIN Prefixes : maxPrefixSize >= Len(lv)
    /\ call.op \in LogOps =>
          \A i \in 1..Len(Written) :
              LeadingSpaces(AfterLabel(Written[i], call.prefix.Text, logger.color))
                  = maxPrefixSize - Len(call.prefix.Text) + 1


\* C22: merging the HTTP method prefixes into the registry only adds entries:
\* in every state each standard level is registered with the label, colour and
\* stack-trace flag it was declared with, and every line a Trace or Tracef
\* call writes carries the stack trace.
C22_MergeKeepsStandardLevels ==
    /\ \A lv \in StdLevels :
          lv \in DOMAIN Prefixes /\ Prefixes[lv] = StdPrefixes[lv]
    /\ call.op \in {"Trace", "Tracef"} =>
          \A i \in 1..Len(Written) : Contains(Written[i], StackTrace)


-----------------------------------------------------------------------------
(* handlers/interceptor.go: the gRPC interceptors.  An error is "nil" or the *)
(* name of an error value; ErrorText is its Error() string.                 *)

MethodA == <<"/","s","/","A">>
MethodB == <<"/","s","/","B">>
Methods == {MethodA, MethodB}

\* the ignoreMethods lists; <<>> stands for the nil slice
IgnoreLists == {<<>>, <<MethodB, MethodA>>, <<MethodB>>}

\* the outcomes of a handler, an invoker or a streamer
Errs == {"nil", "boom"}

ErrorText(err) == IF err = "EOF" THEN <<"E","O","F">> ELSE <<"b","o","o","m">>

\* the levels an interceptor is configured with; GetLevel is not a case of the switch
InterceptLevels == StdLevels \cup {GetLevel}

\* the map logFunc(ctx) returns
LogFuncMap == <<"p","e","e","r">> :> VStr(<<"x">>)

GrpcMethodKey == <<"g","r","p","c",".","m","e","t","h","o","d">>
MethodKey == <<"m","e","t","h","o","d">>
ErrorKey == <<"e","r","r","o","r">>

\* m[k] = x on a Go map
MapSet(m, k, x) == [kk \in DOMAIN m \cup {k} |-> IF kk = k THEN x ELSE m[kk]]

\* interceptor.go:109-119
ignored(method, methods) ==
    IF methods = <<>> THEN FALSE
    ELSE \E i \in 1..Len(methods) : methods[i] = method

\* interceptor.go:11-28: the method of the logger called for a level
logLevelForMap(level) ==
    CASE level = Fatal -> "FatalMap"
      [] level = Error -> "ErrorMap"
      [] level = Warn  -> "WarnMap"
      [] level = Debug -> "Debug"
      [] level = Trace -> "TraceMap"
      [] OTHER -> "InfoMap"

\* interceptor.go:33-44 and 51-62: the logger calls of a server interceptor
serverLogs(method, methods, level, err) ==
    IF ignored(method, methods) THEN <<>>
    ELSE LET logVal == MapSet(LogFuncMap, GrpcMethodKey, VStr(method))
         IN  IF err # "nil"
             THEN <<[val |-> MapSet(logVal, ErrorKey, VStr(ErrorText(err))),
                     op |-> "ErrorMap"]>>
             ELSE <<[val |-> logVal, op |-> logLevelForMap(level)]>>

\* interceptor.go:69-80 and 93-103: the logger calls of a client interceptor
clientLogs(method, methods, level, err) ==
    IF err # "nil"
    THEN <<[val |-> MapSet(LogFuncMap, ErrorKey, VStr(ErrorText(err))),
            op |-> "ErrorMap"]>>
    ELSE IF ignored(method, methods) THEN <<>>
    ELSE <<[val |-> MapSet(LogFuncMap, MethodKey, VStr(method)),
            op |-> logLevelForMap(level)]>>

\* fmt's rendering of a map[string]any whose keys are in ascending order
RECURSIVE SprintPairs(_, _)
SprintPairs(v, keys) ==
    IF keys = <<>> THEN <<>>
    ELSE Head(keys) \o <<":">> \o FormatV(v[Head(keys)])
         \o (IF Len(keys) > 1 THEN <<" ">> ELSE <<>>)
         \o SprintPairs(v, Tail(keys))

SprintMap(v) ==
    <<"m","a","p","[">>
    \o SprintPairs(v, SortStrings(CHOOSE s \in RangeOrders(DOMAIN v) : TRUE))
    \o <<"]">>

\* the severity prefix of a call the interceptors make
LevelOfCall(op) ==
    CASE op = "FatalMap" -> Fatal
      [] op = "ErrorMap" -> Error
      [] op = "WarnMap"  -> Warn
      [] op = "Debug"    -> Debug
      [] op = "TraceMap" -> Trace
      [] OTHER -> Info

\* the Write calls of l.FatalMap(val), l.ErrorMap(val), l.WarnMap(val),
\* l.Debug(val), l.TraceMap(val) and l.InfoMap(val) on the Logger under study
LoggerWrites(op, val, it) ==
    CASE op = "Debug" ->
            IF IsDebug(logger)
            THEN Out(Prefixes[Debug], Sprintln(<<SprintMap(val)>>), FALSE)
            ELSE EmptySink
      [] op = "TraceMap" ->
            IF IsTrace(logger) THEN OutMap(Prefixes[Trace], val, it, FALSE)
            ELSE EmptySink
      [] OTHER -> OutMap(Prefixes[LevelOfCall(op)], val, it, op \in {"FatalMap", "ErrorMap"})

\* the effect of the logger calls logs (none or one) on call, sink and pc;
\* FatalMap ends in os.Exit(1)
LoggerCalls(logs) ==
    IF logs = <<>>
    THEN UNCHANGED <<call, sink, pc, exitArg>>
    ELSE LET c == logs[1] IN
         /\ \E it \in IterOrders(c.val) : sink' = LoggerWrites(c.op, c.val, it)
         /\ call' = IF c.op = "Debug"
                    THEN [NoCall EXCEPT !.op = c.op, !.prefix = Prefixes[Debug],
                                        !.data = Sprintln(<<SprintMap(c.val)>>)]
                    ELSE [NoCall EXCEPT !.op = c.op, !.prefix = Prefixes[LevelOfCall(c.op)],
                                        !.arg = c.val, !.fields = c.val]
         /\ IF c.op = "FatalMap"
            THEN pc' = "exit" /\ exitArg' = 1
            ELSE UNCHANGED <<pc, exitArg>>

\* one call of an interceptor closure that made the logger calls logs; it
\* returns to its caller unless the logger ended the process
Intercepted(kind, method, methods, level, resp, err, fin, logs, ret) ==
    /\ Ready
    /\ logger.made
    /\ LoggerCalls(logs)
    /\ icpt' = [NoIntercept EXCEPT
                    !.kind = kind, !.method = method, !.ignoreMethods = methods,
                    !.logLevel = level, !.resp = resp, !.err = err, !.fin = fin,
                    !.logged = logs,
                    !.ret = IF logs # <<>> /\ logs[1].op = "FatalMap"
                            THEN NoIntercept.ret ELSE ret]
    /\ UNCHANGED <<logger, exitCode, globals, thr, mu, pool, stream>>

\* interceptor.go:30-46
UnaryServerInterceptor ==
    \E method \in Methods, methods \in IgnoreLists, level \in InterceptLevels,
       err \in Errs :
        LET resp == IF err = "nil" THEN "reply" ELSE "nil"
        IN  Intercepted("UnaryServerInterceptor", method, methods, level, resp, err, "nil",
                        serverLogs(method, methods, level, err),
                        [err |-> err, resp |-> resp, done |-> TRUE])

\* interceptor.go:48-64
StreamServerInterceptor ==
    \E method \in Methods, methods \in IgnoreLists, level \in InterceptLevels,
       err \in Errs :
        Intercepted("StreamServerInterceptor", method, methods, level, "nil", err, "nil",
                    serverLogs(method, methods, level, err),
                    [err |-> err, resp |-> "nil", done |-> TRUE])

\* interceptor.go:66-82
UnaryClientInterceptor ==
    \E method \in Methods, methods \in IgnoreLists, level \in InterceptLevels,
       err \in Errs :
        Intercepted("UnaryClientInterceptor", method, methods, level, "nil", err, "nil",
                    clientLogs(method, methods, level, err),
                    [err |-> err, resp |-> "nil", done |-> TRUE])


\* interceptor.go:84-107 with its logging goroutine run to its end.  When the
\* streamer fails no wrapper is created and the goroutine evaluates
\* clientStream.finished on a nil pointer: the runtime ends the process with
\* status 2.  Otherwise the goroutine receives fin from finished.
StreamClientInterceptor ==
    \E method \in Methods, methods \in IgnoreLists, level \in InterceptLevels,
       err \in Errs, fin \in Errs :
        IF err # "nil"
        THEN /\ Ready
             /\ logger.made
             /\ fin = "nil"
             /\ icpt' = [NoIntercept EXCEPT
                             !.kind = "StreamClientInterceptor", !.method = method,
                             !.ignoreMethods = methods, !.logLevel = level, !.err = err,
                             !.ret = [err |-> err, resp |-> "nil", done |-> TRUE]]
             /\ pc' = "exit"
             /\ exitArg' = 2
             /\ UNCHANGED <<logger, call, sink, exitCode, globals, thr, mu, pool, stream>>
        ELSE Intercepted("StreamClientInterceptor", method, methods, level, "nil", err, fin,
                         clientLogs(method, methods, level, fin),
                         [err |-> err, resp |-> "nil", done |-> TRUE])

\* the loggers the interceptors are handed
InterceptLoggers ==
    {[MkLogger(<<>>, tty, "err", NilPtr, FALSE) EXCEPT !.debug = d] :
        tty \in BOOLEAN, d \in BOOLEAN}

InterceptInit ==
    /\ Prefixes = StdPrefixes
    /\ maxNameSize = 0
    /\ maxPrefixSize = scanPrefixes(StdPrefixes, 0)
    /\ httplogInit = FALSE
    /\ regs = <<>>
    /\ logger \in InterceptLoggers
    /\ pc = "run"
    /\ exitArg = -1
    /\ exitCode = -1
    /\ call = NoCall
    /\ sink = EmptySink
    /\ thr = <<>>
    /\ mu = ""
    /\ pool = EmptyPool
    /\ stream = NoStream
    /\ icpt = NoIntercept

InterceptNext ==
    \/ UnaryServerInterceptor
    \/ StreamServerInterceptor
    \/ UnaryClientInterceptor
    \/ StreamClientInterceptor
    \/ Observe
    \/ OsExit

InterceptSpec == InterceptInit /\ [][InterceptNext]_vars

\* C25: a method listed in ignoreMethods is never logged by any of the four
\* interceptors, whether the call succeeded or failed; a method not listed is
\* logged exactly once, with ErrorMap when the call failed and at the
\* configured level otherwise; an interceptor that returns hands back the
\* result and the error of the handler, invoker or streamer unchanged.
C25_IgnoreListHonoured ==
    icpt.kind # "none" =>
        /\ IF ignored(icpt.method, icpt.ignoreMethods)
           THEN icpt.logged = <<>>
           ELSE /\ Len(icpt.logged) = 1
                /\ IF icpt.err # "nil" \/ icpt.fin # "nil"
                   THEN icpt.logged[1].op = "ErrorMap"
                   ELSE LevelOfCall(icpt.logged[1].op)
                            = (IF icpt.logLevel \in StdLevels THEN icpt.logLevel ELSE Info)
        /\ icpt.ret.done => icpt.ret.resp = icpt.resp /\ icpt.ret.err = icpt.err


-----------------------------------------------------------------------------
(* handlers/interceptor.go: the wrapped client stream.  StreamSpec follows   *)
(* one call of StreamClientInterceptor step by step: the goroutine of        *)
(* wrapClientStream, the logging goroutine of the interceptor, and three     *)
(* application goroutines that use the stream as grpc allows: "snd" calls    *)
(* SendMsg and CloseSend, "rcv" calls RecvMsg, "hdr" calls Header.  The      *)
(* channels events and finished are unbuffered: a send and its receive are   *)
(* one step.                                                                *)

MaxStreamCalls == 2

StreamCallers == {"snd", "rcv", "hdr"}

\* pc: "idle", "select" (inside sendStreamEvent), and for the logging goroutine
\* "recv", "log", "done", "panic"; ev: the event sendStreamEvent was called
\* with; err: the error that event carries, or the value received from
\* finished; calls: the calls begun; via: the case of the select that let the
\* last sendStreamEvent return
IdleStreamThread == [pc |-> "idle", err |-> "nil", ev |-> "none", calls |-> 0, via |-> "none"]

\* interceptor.go:236-239
clientClosedState == 1
receiveEndedState == 2

\* a | b for a byte a below 4 and a single bit b
BitOr(a, b) == IF (a \div b) % 2 = 1 THEN a ELSE a + b

\* a plausible bug: the stream counts as complete once either side has ended
handleEvent_eitherSide(state, event) ==
    IF event.Type = "errorEvent"
    THEN [val |-> event.Err, state |-> state, send |-> TRUE]
    ELSE [val |-> "nil", state |-> 3, send |-> TRUE]

\* interceptor.go:131-146: one turn of the loop over events.  send: the loop
\* goes on to send val on finished and return
handleEvent(state, event) ==
    LET s2 == CASE event.Type = "closeEvent" -> BitOr(state, clientClosedState)
                [] event.Type = "receiveEndEvent" -> BitOr(state, receiveEndedState)
                [] OTHER -> state
    IN  IF event.Type = "errorEvent"
        THEN [val |-> event.Err, state |-> s2, send |-> TRUE]
        ELSE IF s2 = BitOr(clientClosedState, receiveEndedState)
        THEN [val |-> "nil", state |-> s2, send |-> TRUE]
        ELSE [val |-> "nil", state |-> s2, send |-> FALSE]

\* the inputs of the interceptor call followed
StreamCalls == {[method |-> MethodA, methods |-> <<MethodB>>, level |-> Info]}

StreamInit ==
    /\ Prefixes = StdPrefixes
    /\ maxNameSize = 0
    /\ maxPrefixSize = scanPrefixes(StdPrefixes, 0)
    /\ httplogInit = FALSE
    /\ regs = <<>>
    /\ logger = MkLogger(<<>>, FALSE, "err", NilPtr, FALSE)
    /\ pc = "run"
    /\ exitArg = -1
    /\ exitCode = -1
    /\ call = NoCall
    /\ sink = EmptySink
    /\ thr = [t \in StreamCallers \cup {"log"} |-> IdleStreamThread]
    /\ mu = ""
    /\ pool = EmptyPool
    /\ stream = NoStream
    /\ icpt = NoIntercept

StreamFrame == UNCHANGED <<globals, logger, pc, exitArg, exitCode, call, sink, mu, pool>>

\* interceptor.go:85-90 and 105, with wrapClientStream (121-156): the streamer
\* is called, the stream is wrapped if it did not fail, the logging goroutine
\* is started and the interceptor returns
StreamClientInterceptor_call ==
    \E c \in StreamCalls, err \in Errs, ServerStreams \in BOOLEAN :
        /\ pc = "run"
        /\ stream.cs = "none"
        /\ stream' = IF err = "nil"
                     THEN [NoStream EXCEPT !.cs = "wrapped", !.loop = "range",
                                           !.ServerStreams = ServerStreams]
                     ELSE [NoStream EXCEPT !.cs = "nil"]
        /\ thr' = [thr EXCEPT !["log"].pc = "recv"]
        /\ icpt' = [NoIntercept EXCEPT !.kind = "StreamClientInterceptor",
                                       !.method = c.method, !.ignoreMethods = c.methods,
                                       !.logLevel = c.level, !.err = err,
                                       !.ret = [err |-> err, resp |-> "nil", done |-> TRUE]]
        /\ StreamFrame

\* a method of the wrapper is entered by t: the wrapped call has returned err
\* and the event ev, if any, is handed to sendStreamEvent
StreamMethod(t, err, ev, s2) ==
    /\ pc = "run"
    /\ stream.cs = "wrapped"
    /\ thr[t].pc = "idle"
    /\ thr[t].calls < MaxStreamCalls
    /\ thr' = [thr EXCEPT ![t] = [pc |-> IF ev = "none" THEN "idle" ELSE "select",
                                  err |-> IF ev = "errorEvent" THEN err ELSE "nil",
                                  ev |-> ev,
                                  calls |-> thr[t].calls + 1, via |-> "none"]]
    /\ stream' = s2
    /\ UNCHANGED icpt
    /\ StreamFrame

\* interceptor.go:170-185
RecvMsg == \E err \in {"nil", "EOF", "boom"} :
    StreamMethod("rcv", err,
                 IF err = "nil" /\ ~stream.ServerStreams THEN "receiveEndEvent"
                 ELSE IF err = "EOF" THEN "receiveEndEvent"
                 ELSE IF err # "nil" THEN "errorEvent"
                 ELSE "none",
                 IF err = "nil" /\ stream.ServerStreams
                 THEN [stream EXCEPT !.receivedMessageID = @ + 1]
                 ELSE stream)

\* interceptor.go:186-197
SendMsg == \E err \in {"nil", "boom"} :
    StreamMethod("snd", err, IF err # "nil" THEN "errorEvent" ELSE "none",
                 [stream EXCEPT !.sentMessageID = @ + 1])

\* interceptor.go:198-204
Header == \E err \in {"nil", "boom"} :
    StreamMethod("hdr", err, IF err # "nil" THEN "errorEvent" ELSE "none", stream)

\* interceptor.go:205-215
CloseSend == \E err \in {"nil", "boom"} :
    StreamMethod("snd", err, IF err # "nil" THEN "errorEvent" ELSE "closeEvent", stream)

\* interceptor.go:219 and 131-146: the select of t sends its event, the loop
\* receives it and runs up to its next channel operation
sendStreamEvent_events(t) ==
    /\ pc = "run"
    /\ thr[t].pc = "select"
    /\ stream.loop = "range"
    /\ LET event == [Type |-> thr[t].ev,
                     Err |-> IF thr[t].ev = "errorEvent" THEN thr[t].err ELSE "nil"]
           h == handleEvent(stream.state, event)
       IN  stream' = [stream EXCEPT !.events = Append(@, event),
                                    !.state = h.state,
                                    !.val = h.val,
                                    !.loop = IF h.send THEN "send" ELSE "range"]
    /\ thr' = [thr EXCEPT ![t] = [IdleStreamThread EXCEPT !.calls = thr[t].calls,
                                                          !.via = "events"]]
    /\ UNCHANGED icpt
    /\ StreamFrame

\* interceptor.go:218: the select of t receives from the closed eventsDone
sendStreamEvent_eventsDone(t) ==
    /\ pc = "run"
    /\ thr[t].pc = "select"
    /\ stream.eventsDone
    /\ thr' = [thr EXCEPT ![t] = [IdleStreamThread EXCEPT !.calls = thr[t].calls,
                                                          !.via = "eventsDone"]]
    /\ UNCHANGED <<stream, icpt>>
    /\ StreamFrame

sendStreamEvent(t) == sendStreamEvent_events(t) \/ sendStreamEvent_eventsDone(t)

\* interceptor.go:138, 143 and 92: the loop's send on finished meets the
\* receive of the logging goroutine
finished_handoff ==
    /\ pc = "run"
    /\ thr["log"].pc = "recv"
    /\ stream.cs = "wrapped"
    /\ stream.loop = "send"
    /\ stream' = [stream EXCEPT !.finished = Append(@, stream.val), !.loop = "return"]
    /\ thr' = [thr EXCEPT !["log"].pc = "log", !["log"].err = stream.val]
    /\ UNCHANGED icpt
    /\ StreamFrame

\* interceptor.go:139, 144 and 126: the loop returns, its deferred
\* close(eventsDone) runs
loop_return ==
    /\ pc = "run"
    /\ stream.loop = "return"
    /\ stream' = [stream EXCEPT !.loop = "done", !.eventsDone = TRUE]
    /\ UNCHANGED <<thr, icpt>>
    /\ StreamFrame

\* interceptor.go:92 when no wrapper was created: clientStream is nil and
\* clientStream.finished is a nil pointer dereference; the panic of the
\* goroutine ends the process with status 2
logging_fault ==
    /\ pc = "run"
    /\ thr["log"].pc = "recv"
    /\ stream.cs = "nil"
    /\ thr' = [thr EXCEPT !["log"].pc = "panic"]
    /\ pc' = "exit"
    /\ exitArg' = 2
    /\ UNCHANGED <<globals, logger, exitCode, call, sink, mu, pool, stream, icpt>>

\* interceptor.go:93-103: the logging goroutine after its receive
logging_log ==
    /\ pc = "run"
    /\ thr["log"].pc = "log"
    /\ LET logs == clientLogs(icpt.method, icpt.ignoreMethods, icpt.logLevel, thr["log"].err)
       IN  /\ LoggerCalls(logs)
           /\ icpt' = [icpt EXCEPT !.fin = thr["log"].err, !.logged = logs]
    /\ thr' = [thr EXCEPT !["log"].pc = "done"]
    /\ UNCHANGED <<globals, logger, exitCode, mu, pool, stream>>

StreamNext ==
    \/ StreamClientInterceptor_call
    \/ RecvMsg
    \/ SendMsg
    \/ Header
    \/ CloseSend
    \/ \E t \in StreamCallers : sendStreamEvent_events(t)
    \/ \E t \in StreamCallers : sendStreamEvent_eventsDone(t)
    \/ finished_handoff
    \/ loop_return
    \/ logging_fault
    \/ logging_log
    \/ OsExit

StreamSpec == StreamInit /\ [][StreamNext]_vars

\* every goroutine that can take a step is scheduled: the select of each
\* caller, the receive of the logging goroutine and the return of the loop
StreamFairSpec ==
    /\ StreamSpec
    /\ \A t \in StreamCallers : WF_vars(sendStreamEvent(t))
    /\ WF_vars(finished_handoff)
    /\ WF_vars(loop_return)


-----------------------------------------------------------------------------
(* Properties of the wrapped client stream *)

\* the events evs hold an error event
HasErrorEvent(evs) == \E i \in 1..Len(evs) : evs[i].Type = "errorEvent"

\* the events evs hold a close event and a receive-end event
BothEnded(evs) ==
    /\ \E i \in 1..Len(evs) : evs[i].Type = "closeEvent"
    /\ \E i \in 1..Len(evs) : evs[i].Type = "receiveEndEvent"

\* the loop has left its range over events
LoopEnded == stream.loop \in {"send", "return", "done"}

\* the loop goes on exactly until the events it has received hold an error
\* event or both a close and a receive-end event; the event that ends it is
\* the last it receives, and the value it sends on finished, once, is the error
\* of that event or nil
LoopState ==
    stream.cs = "wrapped" =>
        LET evs == stream.events
            pre == SubSeq(evs, 1, Len(evs) - 1)
        IN  /\ LoopEnded <=> (HasErrorEvent(evs) \/ BothEnded(evs))
            /\ LoopEnded =>
                  /\ ~HasErrorEvent(pre)
                  /\ ~BothEnded(pre)
                  /\ stream.val = IF evs[Len(evs)].Type = "errorEvent"
                                  THEN evs[Len(evs)].Err ELSE "nil"
                  /\ evs[Len(evs)].Type = "errorEvent" => evs[Len(evs)].Err # "nil"
            /\ stream.finished = IF stream.loop \in {"return", "done"}
                                 THEN <<stream.val>> ELSE <<>>
            /\ stream.eventsDone <=> stream.loop = "done"

\* C23: the event loop of a wrapped client stream sends exactly one value on
\* finished and then stops, the error of the first error event if one arrives
\* before completion and otherwise nil once a close event and a receive-end
\* event have both been seen, in either order and with repeats; and, the
\* finished value being received, every call of sendStreamEvent returns.
C23_EventLoop ==
    /\ [](LoopState)
    /\ \A t \in StreamCallers : (thr[t].pc = "select") ~> (thr[t].pc = "idle")

\* the stream completed after a repeated receive-end event, and a call of
\* sendStreamEvent made after the loop had ended returned through eventsDone
C23_Witness ==
    /\ stream.loop = "done"
    /\ stream.finished = <<"nil">>
    /\ Len(stream.events) >= 3
    /\ \E t \in StreamCallers : thr[t].via = "eventsDone"


\* C24: whatever the streamer returns, a non-nil error included,
\* StreamClientInterceptor returns that error to its caller and its logging
\* goroutine does not fault: it never reads the finished channel of a stream
\* wrapper that was not created.
C24_StreamerErrorHandled ==
    /\ icpt.kind = "StreamClientInterceptor" => icpt.ret.done /\ icpt.ret.err = icpt.err
    /\ thr["log"].pc # "panic"
    /\ thr["log"].pc \in {"log", "done"} => stream.cs = "wrapped"

=============================================================================
